---- MODULE Spec2Model ----
(***************************************************************************)
(* Model of the funnel API (app/api/routes.py): the discover, refine and   *)
(* answer handlers, the SQLite-backed TraceStore, the TraceLedger and the  *)
(* FacetRanker.  Handlers run in FastAPI's thread pool, so several calls   *)
(* are in flight at once; each call advances one statement group at a      *)
(* time.  The only suspension points that matter are between a clock read  *)
(* and the INSERT that follows it, and around the generative-model call.   *)
(***************************************************************************)
EXTENDS Integers, Sequences, FiniteSets, TLC

\* ---------------------------------------------------------------- bounds
MaxCalls == 3          \* API calls issued in one behaviour
MaxRequests == 2       \* distinct uuid4 values that can be drawn
MaxClock == 1          \* wall-clock readings 0..MaxClock
MaxInFlight == 2       \* worker threads: calls being handled at one time
MaxCandidates == 3     \* candidates handed to the ranker
MaxOrder == 3          \* entries of a facet_order the model replies with
MaxChoices == 2        \* entries of a facet definition's choices list
MaxSuggested == 2      \* entries of a facet definition's suggested_values list
MaxReplyFacets == 2    \* entries of the facets list the model replies with
MaxSelections == 2     \* facet selections in one refine or answer payload
MaxServices == 3       \* records of a services.json
MaxMembers == 4        \* records of a members.json
MaxKeywords == 2       \* keywords of one member search

Calls == 1..MaxCalls
RequestIds == 1..MaxRequests

\* ------------------------------------------------------- program constants
max_refine_rounds == 2
max_facet_questions == 10
default_max_results == 10

StageOrder == <<"DETECT_DOMAIN", "SUGGEST_FACETS", "USER_SELECT",
                "COMPILE_PROMPT", "MODEL_RESPONSE">>

\* caller-supplied refine_round values: at the cap and above it
RefineRounds == {max_refine_rounds, max_refine_rounds + 1}

\* discover payloads, each a raw_query with the pack the router picks for it
DiscoverInputs == {[raw_query |-> "q1", domain_pack |-> "universal"],
                   [raw_query |-> "q2", domain_pack |-> "legal"]}

\* ranked[: settings.max_facet_questions]
limit(ids) == SubSeq(ids, 1, IF Len(ids) < max_facet_questions
                              THEN Len(ids) ELSE max_facet_questions)

\* ids of the ranked candidates discovery yields for a pack: its base facets
\* in round 1, its refinement facets in round 2
round1_ids(pack) ==
    IF pack = "legal" THEN <<"jurisdiction">>
    ELSE <<"audience", "format", "tone", "length", "depth", "language",
           "examples", "sources", "scope", "deadline", "budget">>
round2_ids(pack) ==
    IF pack = "legal" THEN <<"court_level">> ELSE << >>

NoRequest == [request_id |-> 0]
NoResp == [status |-> 0]

VARIABLES
    settings,   \* frozen Settings: openai_api_key present, enable_llm_facet_proposals
    requests,   \* table requests: request_id -> row or NoRequest
    events,     \* table events: set of rows
    next_id,    \* AUTOINCREMENT counter of table events
    clock,      \* last wall-clock reading handed out
    pc,         \* position of every call
    call,       \* payload of every call
    local,      \* locals of every call: append index, timestamp, limited
    returned,   \* events TraceLedger.append has returned to every call
    resp,       \* response of every call
    overlapped, \* whether a call has begun while another was in flight
    ranker,     \* one FacetRanker call: its arguments, the model reply, its result
    discovery,  \* one FacetDiscoveryEngine call, or one refine call around it
    router_engine, \* one DomainRouter.choose_pack call
    compiler,   \* one PromptCompiler.compile call, or one answer call around it
    catalog     \* one CatalogSearch call

api_vars == <<settings, requests, events, next_id, clock, pc, call, local, returned,
              resp, overlapped>>
engines == <<ranker, discovery, router_engine, compiler, catalog>>
vars == <<api_vars, engines>>

\* ------------------------------------------------------------ TraceStore
RECURSIVE SortById(_)
SortById(S) ==
    IF S = {} THEN << >>
    ELSE LET m == CHOOSE x \in S : \A y \in S : x.id <= y.id
         IN  <<m>> \o SortById(S \ {m})

RECURSIVE SortByTime(_)
SortByTime(S) ==
    IF S = {} THEN << >>
    ELSE LET m == CHOOSE x \in S : \A y \in S :
                     \/ x.created_at < y.created_at
                     \/ (x.created_at = y.created_at /\ x.id <= y.id)
         IN  <<m>> \o SortByTime(S \ {m})

\* mutant of rows_of: ORDER BY created_at instead of ORDER BY id
rows_by_time(evs, rid) == SortByTime({e \in evs : e.request_id = rid})

\* SELECT ... WHERE request_id = ? ORDER BY id ASC, in the given table
rows_of(evs, rid) == SortById({e \in evs : e.request_id = rid})

list_events_in(evs, rid) ==
    LET rows == rows_of(evs, rid)
    IN  [i \in 1..Len(rows) |->
            [event_type |-> rows[i].event_type,
             data |-> rows[i].data,
             timestamp |-> rows[i].created_at]]

list_events(rid) == list_events_in(events, rid)

\* mutant of add_event: a read-modify-write of the request's trace that drops a
\* row another call inserted in between
add_event_lossy(evs, id, rid, event_type, data, created_at, c) ==
    {e \in evs : ~(e.request_id = rid /\ e.id = id - 1 /\ e.call # c)}
    \cup {[id |-> id, request_id |-> rid, event_type |-> event_type,
           data |-> data, created_at |-> created_at, call |-> c]}

\* INSERT INTO events ...; one SQLite transaction
add_event(evs, id, rid, event_type, data, created_at, c) ==
    evs \cup {[id |-> id, request_id |-> rid, event_type |-> event_type,
               data |-> data, created_at |-> created_at, call |-> c]}

\* mutant of get_request: a default row for an id that is not stored
get_request_or_default(reqs, rid) ==
    IF reqs[rid].request_id = 0
    THEN [request_id |-> rid, raw_query |-> "q1", domain_pack |-> "universal",
          created_at |-> 0]
    ELSE reqs[rid]

\* SELECT ... FROM requests WHERE request_id = ?
get_request(reqs, rid) == reqs[rid]

\* INSERT INTO requests ...; request_id is the PRIMARY KEY, so an INSERT on an
\* existing id raises IntegrityError and leaves the table as it was
request_exists(reqs, rid) == reqs[rid] # NoRequest

\* mutant of create_request: INSERT OR REPLACE
create_request_or_replace(reqs, rid, raw_query, domain_pack, created_at) ==
    [reqs EXCEPT ![rid] = [request_id |-> rid, raw_query |-> raw_query,
                           domain_pack |-> domain_pack, created_at |-> created_at]]

create_request(reqs, rid, raw_query, domain_pack, created_at) ==
    IF request_exists(reqs, rid) THEN reqs
    ELSE [reqs EXCEPT ![rid] = [request_id |-> rid, raw_query |-> raw_query,
                                domain_pack |-> domain_pack, created_at |-> created_at]]

\* str(uuid4()): a fresh id, or (with negligible probability) one in use; ids
\* are interchangeable, so the fresh one is the least unused
uuid4(reqs) ==
    LET unused == {r \in RequestIds : ~request_exists(reqs, r)}
    IN  {r \in RequestIds : request_exists(reqs, r)}
        \cup {r \in unused : \A u \in unused : r <= u}

\* ----------------------------------------------------------- TraceLedger
\* datetime.now(timezone.utc): the clock stands still or has moved on
now_values(clk) == {t \in {clk, clk + 1} : t <= MaxClock}

\* ---------------------------------------------------------------- routes
\* mutant of round_limit_reached: compares against one round too many
round_limit_off_by_one(refine_round) == refine_round > max_refine_rounds + 1

\* refine: payload.refine_round > settings.max_refine_rounds
round_limit_reached(refine_round) == refine_round > max_refine_rounds

\* mutant of appends_of: answer records the compiled prompt before the
\* selections
appends_of_compile_first(op) ==
    CASE op = "discover" -> <<"DETECT_DOMAIN", "SUGGEST_FACETS">>
      [] op = "refine"   -> <<"SUGGEST_FACETS">>
      [] op = "answer"   -> <<"COMPILE_PROMPT", "USER_SELECT", "MODEL_RESPONSE">>

\* the ledger.append calls of each handler, in program order
appends_of(op) ==
    CASE op = "discover" -> <<"DETECT_DOMAIN", "SUGGEST_FACETS">>
      [] op = "refine"   -> <<"SUGGEST_FACETS">>
      [] op = "answer"   -> <<"USER_SELECT", "COMPILE_PROMPT", "MODEL_RESPONSE">>

\* mutant of event_data: facet_ids taken from the candidates in reverse
event_data_ids_reversed(c, k) ==
    LET t == appends_of(call[c].op)[k]
        ids == local[c].limited
    IN  CASE t = "DETECT_DOMAIN" ->
               [active_domain_pack |-> requests[call[c].request_id].domain_pack]
          [] t = "SUGGEST_FACETS" ->
               [round |-> call[c].refine_round,
                facet_ids |-> [i \in 1..Len(ids) |-> ids[Len(ids) + 1 - i]]]
          [] t = "USER_SELECT" -> [selections |-> << >>]
          [] t = "COMPILE_PROMPT" -> [sections |-> <<"User Query", "Selected Facets", "Instructions">>]
          [] t = "MODEL_RESPONSE" -> [model |-> "openai_model"]

\* the data argument of the k-th ledger.append of call c
event_data(c, k) ==
    LET t == appends_of(call[c].op)[k]
    IN  CASE t = "DETECT_DOMAIN" ->
               [active_domain_pack |-> requests[call[c].request_id].domain_pack]
          [] t = "SUGGEST_FACETS" ->
               [round |-> call[c].refine_round, facet_ids |-> local[c].limited]
          [] t = "USER_SELECT" -> [selections |-> << >>]
          [] t = "COMPILE_PROMPT" -> [sections |-> <<"User Query", "Selected Facets", "Instructions">>]
          [] t = "MODEL_RESPONSE" -> [model |-> "openai_model"]

NoRanking == [op |-> "none"]

\* a component that has not been called
Idle == [op |-> "none"]

NoCall == [op |-> "none", request_id |-> 0, refine_round |-> 0, began |-> 0]
NoLocal == [k |-> 0, timestamp |-> 0, limited |-> << >>]

Init ==
    /\ settings \in [openai_api_key : BOOLEAN, enable_llm_facet_proposals : BOOLEAN]
    /\ requests = [r \in RequestIds |-> NoRequest]
    /\ events = {}
    /\ next_id = 1
    /\ clock = 0
    /\ pc = [c \in Calls |-> "idle"]
    /\ call = [c \in Calls |-> NoCall]
    /\ local = [c \in Calls |-> NoLocal]
    /\ returned = [c \in Calls |-> << >>]
    /\ resp = [c \in Calls |-> NoResp]
    /\ overlapped = FALSE
    /\ ranker = NoRanking
    /\ discovery = Idle
    /\ router_engine = Idle
    /\ compiler = Idle
    /\ catalog = Idle

\* calls are issued one after another; a later call may overtake an earlier one
InFlight == {c \in Calls : pc[c] \notin {"idle", "done"}}

CanBegin(c) ==
    /\ pc[c] = "idle"
    /\ IF c = 1 THEN TRUE ELSE pc[c - 1] # "idle"
    /\ Cardinality(InFlight) < MaxInFlight
    /\ overlapped' = (overlapped \/ InFlight # {})

\* request ids a caller can put in a refine or answer payload: those a
\* discover response has handed out, and ids no request has
caller_ids ==
    {r \in RequestIds :
        \/ ~request_exists(requests, r)
        \/ \E d \in Calls : /\ pc[d] = "done" /\ call[d].op = "discover"
                             /\ resp[d].status = 200 /\ resp[d].request_id = r}

Fail(c, status) ==
    /\ pc' = [pc EXCEPT ![c] = "done"]
    /\ resp' = [resp EXCEPT ![c] = [status |-> status]]

\* discover, lines 69-88: route, discover, rank, truncate, create the request row
DiscoverBegin(c) ==
    /\ CanBegin(c)
    /\ \E in \in DiscoverInputs :
        LET me(rid) == [op |-> "discover", request_id |-> rid, refine_round |-> 1,
                        began |-> next_id]
        IN
        \/ /\ settings.enable_llm_facet_proposals /\ ~settings.openai_api_key
           /\ Fail(c, 400)
           /\ call' = [call EXCEPT ![c] = me(0)]
           /\ UNCHANGED <<requests, clock, local>>
        \/ /\ settings.enable_llm_facet_proposals /\ settings.openai_api_key
           /\ Fail(c, 500)                       \* the model call raised
           /\ call' = [call EXCEPT ![c] = me(0)]
           /\ UNCHANGED <<requests, clock, local>>
        \/ /\ ~(settings.enable_llm_facet_proposals /\ ~settings.openai_api_key)
           /\ \E rid \in uuid4(requests), t \in now_values(clock) :
                /\ clock' = t
                /\ requests' = create_request(requests, rid, in.raw_query,
                                              in.domain_pack, t)
                /\ call' = [call EXCEPT ![c] =
                                me(IF request_exists(requests, rid) THEN 0 ELSE rid)]
                /\ IF request_exists(requests, rid)
                   THEN Fail(c, 500) /\ UNCHANGED local     \* IntegrityError
                   ELSE /\ pc' = [pc EXCEPT ![c] = "append_ts"]
                        /\ local' = [local EXCEPT ![c] =
                              [k |-> 1, timestamp |-> 0,
                               limited |-> limit(round1_ids(in.domain_pack))]]
                        /\ UNCHANGED resp
    /\ UNCHANGED <<settings, events, next_id, returned, engines>>

\* refine, lines 118-145: look the request up, check the round, discover, rank
RefineBegin(c) ==
    /\ CanBegin(c)
    /\ \E rid \in caller_ids, rr \in RefineRounds :
        /\ call' = [call EXCEPT ![c] = [op |-> "refine", request_id |-> rid,
                                        refine_round |-> rr, began |-> next_id]]
        /\ IF get_request(requests, rid) = NoRequest
           THEN Fail(c, 404) /\ UNCHANGED local
           ELSE IF round_limit_reached(rr)
           THEN /\ pc' = [pc EXCEPT ![c] = "done"]
                /\ resp' = [resp EXCEPT ![c] =
                       [status |-> 200, facet_candidates |-> << >>,
                        why_these_facets |-> <<"Max refine rounds reached">>]]
                /\ UNCHANGED local
           ELSE IF settings.enable_llm_facet_proposals /\ ~settings.openai_api_key
           THEN Fail(c, 400) /\ UNCHANGED local
           ELSE \/ /\ settings.enable_llm_facet_proposals
                   /\ Fail(c, 500) /\ UNCHANGED local   \* the model call raised
                \/ /\ pc' = [pc EXCEPT ![c] = "append_ts"]
                   /\ local' = [local EXCEPT ![c] =
                         [k |-> 1, timestamp |-> 0,
                          limited |-> limit(round2_ids(
                                         get_request(requests, rid).domain_pack))]]
                   /\ UNCHANGED resp
    /\ UNCHANGED <<settings, requests, events, next_id, clock, returned, engines>>

\* answer, lines 162-177: look the request up, compile the prompt
AnswerBegin(c) ==
    /\ CanBegin(c)
    /\ \E rid \in caller_ids :
        /\ call' = [call EXCEPT ![c] = [op |-> "answer", request_id |-> rid,
                                        refine_round |-> 0, began |-> next_id]]
        /\ IF get_request(requests, rid) = NoRequest
           THEN Fail(c, 404) /\ UNCHANGED local
           ELSE /\ pc' = [pc EXCEPT ![c] = "append_ts"]
                /\ local' = [local EXCEPT ![c] = [k |-> 1, timestamp |-> 0,
                                                  limited |-> << >>]]
                /\ UNCHANGED resp
    /\ UNCHANGED <<settings, requests, events, next_id, clock, returned, engines>>

\* TraceLedger.append, line 13: timestamp = datetime.now(timezone.utc)
LedgerAppendClock(c) ==
    /\ pc[c] = "append_ts"
    /\ \E t \in now_values(clock) :
        /\ clock' = t
        /\ local' = [local EXCEPT ![c].timestamp = t]
    /\ pc' = [pc EXCEPT ![c] = "append_ins"]
    /\ UNCHANGED <<settings, requests, events, next_id, call, returned, resp, overlapped, engines>>

\* mutant of after_append: discover responds after its first ledger.append
after_append_discover_once(c, k) ==
    LET op == call[c].op
    IN  CASE op = "discover" -> "done"
          [] op = "refine" -> "done"
          [] op = "answer" /\ k = 1 -> "append_ts"
          [] op = "answer" /\ k = 2 ->
                IF settings.openai_api_key THEN "generate" ELSE "done"
          [] op = "answer" /\ k = 3 -> "list_events"

\* what the handler does once its k-th ledger.append has returned
after_append(c, k) ==
    LET op == call[c].op
    IN  CASE op = "discover" /\ k = 1 -> "append_ts"
          [] op = "discover" /\ k = 2 -> "done"
          [] op = "refine" -> "done"
          [] op = "answer" /\ k = 1 -> "append_ts"
          [] op = "answer" /\ k = 2 ->
                IF settings.openai_api_key THEN "generate" ELSE "done"
          [] op = "answer" /\ k = 3 -> "list_events"

\* TraceStore.add_event and the handler's statements up to its next
\* suspension point (the response of discover and refine included)
StoreAddEvent(c) ==
    /\ pc[c] = "append_ins"
    /\ LET k == local[c].k
           t == appends_of(call[c].op)[k]
           d == event_data(c, k)
           nxt == after_append(c, k)
       IN
       /\ events' = add_event(events, next_id, call[c].request_id, t, d,
                               local[c].timestamp, c)
       /\ next_id' = next_id + 1
       /\ returned' = [returned EXCEPT ![c] =
              Append(@, [event_type |-> t, data |-> d,
                         timestamp |-> local[c].timestamp])]
       /\ pc' = [pc EXCEPT ![c] = nxt]
       /\ local' = [local EXCEPT ![c].k = IF nxt = "append_ts" THEN k + 1 ELSE k]
       /\ resp' = [resp EXCEPT ![c] =
              IF nxt # "done" THEN @
              ELSE IF call[c].op = "answer" THEN [status |-> 400]
              ELSE IF call[c].op = "refine"
                   THEN [status |-> 200, facet_candidates |-> local[c].limited,
                         why_these_facets |->
                            IF local[c].limited = << >>
                            THEN <<"No additional facets found">>
                            ELSE [i \in 1..Len(local[c].limited) |-> "reason"]]
              ELSE [status |-> 200, facet_candidates |-> local[c].limited,
                    request_id |-> call[c].request_id]]
    /\ UNCHANGED <<settings, requests, clock, call, overlapped, engines>>

\* answer, lines 189-191: the generative-model call returns or raises
Generate(c) ==
    /\ pc[c] = "generate"
    /\ \/ /\ pc' = [pc EXCEPT ![c] = "append_ts"]
          /\ local' = [local EXCEPT ![c].k = 3]
          /\ UNCHANGED resp
       \/ Fail(c, 500) /\ UNCHANGED local
    /\ UNCHANGED <<settings, requests, events, next_id, clock, call, returned, overlapped, engines>>

\* answer, lines 203-214: read the trace back and respond
AnswerListEvents(c) ==
    /\ pc[c] = "list_events"
    /\ pc' = [pc EXCEPT ![c] = "done"]
    /\ resp' = [resp EXCEPT ![c] =
           [status |-> 200, trace |-> list_events(call[c].request_id)]]
    /\ UNCHANGED <<settings, requests, events, next_id, clock, call, local, returned, overlapped, engines>>

Next ==
    \E c \in Calls :
        \/ DiscoverBegin(c)
        \/ RefineBegin(c)
        \/ AnswerBegin(c)
        \/ LedgerAppendClock(c)
        \/ StoreAddEvent(c)
        \/ Generate(c)
        \/ AnswerListEvents(c)

Spec == Init /\ [][Next]_vars

\* ----------------------------------------------------------- FacetRanker
None == "None"

\* str.lower() on the keywords that occur in the model
Lower(kw) ==
    CASE kw = "Table" -> "table"
      [] kw = "All Options" -> "all options"
      [] kw = "ALL OPTIONS" -> "all options"
      [] kw = "Who" -> "who"
      [] kw = "Court" -> "court"
      [] kw = "Legal" -> "legal"
      [] kw = "Universal" -> "universal"
      [] kw = "Jurisdiction" -> "jurisdiction"
      [] kw = "Audience" -> "audience"
      [] kw = "Need" -> "need"
      [] kw = "Which" -> "which"
      [] kw = "Programs" -> "programs"
      [] kw = "Jeune" -> "jeune"
      [] kw = "Femme" -> "femme"
      [] kw = "Paris" -> "paris"
      [] kw = "Ile-de-France" -> "ile-de-france"
      [] kw = "Programs & Funding" -> "programs & funding"
      [] kw = "Service Provider" -> "service provider"
      [] kw = "Member" -> "member"
      [] kw = "IT" -> "it"
      [] kw = "HR" -> "hr"
      [] kw = "Recru" -> "recru"
      [] kw = "Digital" -> "digital"
      [] kw = "Marketing" -> "marketing"
      [] kw = "Catering" -> "catering"
      [] kw = "Zoning" -> "zoning"
      [] kw = "Pixel" -> "pixel"
      [] kw = "Echo" -> "echo"
      [] kw = "Lex" -> "lex"
      [] kw = "Atelier" -> "atelier"
      [] kw = "Craft" -> "craft"
      [] kw = "Montreuil" -> "montreuil"
      [] kw = "Pantin" -> "pantin"
      [] kw = "Lyon" -> "lyon"
      [] kw = "Seine-Saint-Denis" -> "seine-saint-denis"
      [] kw = "Find a " -> "find a "
      [] kw = "QDA " -> "qda "
      [] kw = "Auvergne-" -> "auvergne-"
      [] kw = "Rhone" -> "rhone"
      [] kw = "-Alpes" -> "-alpes"
      [] kw = "PACA" -> "paca"
      [] kw = "Hauts-de-France" -> "hauts-de-france"
      [] kw = "Occitanie" -> "occitanie"
      [] kw = "Grand Est" -> "grand est"
      [] kw = "Nouvelle-Aquitaine" -> "nouvelle-aquitaine"
      [] kw = "Normandie" -> "normandie"
      [] kw = "Bretagne" -> "bretagne"
      [] kw = "Pays de la Loire" -> "pays de la loire"
      [] kw = "Centre-Val de Loire" -> "centre-val de loire"
      [] kw = "Bourgogne-Franche-Comte" -> "bourgogne-franche-comte"
      [] kw = "Corse" -> "corse"
      [] kw = "DOM" -> "dom"
      [] OTHER -> kw

\* candidates the ranker can be handed; the first and the third share an id
\* (the model proposed one id twice, or two parents share a refinement facet)
CandidatePool ==
    {[id |-> "audience", title |-> "Audience", keywords |-> <<"who">>,
      default_value |-> "beginner"],
     [id |-> "format", title |-> "Format", keywords |-> <<"Table", "who">>,
      default_value |-> None],
     [id |-> "audience", title |-> "Audience level", keywords |-> << >>,
      default_value |-> None]}

\* a lowercased raw_query, as the set of lowercase words that occur in it
RankQueries == {{}, {"who"}, {"who", "table"}}

BoundedSeq(S, n) == UNION {[1..m -> S] : m \in 0..n}

\* entries of a facet_order: ids of candidates, an unknown id, a falsy entry
OrderItems == {"audience", "format", "zz", ""}

\* model replies: text that is not JSON, JSON that is no object, an object
\* without facet_order, with a facet_order that is no list, with a list
RankReplies ==
    {[json |-> "text", field |-> "absent", facet_order |-> << >>],
     [json |-> "array", field |-> "absent", facet_order |-> << >>],
     [json |-> "object", field |-> "absent", facet_order |-> << >>],
     [json |-> "object", field |-> "scalar", facet_order |-> << >>]}
    \cup {[json |-> "object", field |-> "list", facet_order |-> o] :
             o \in BoundedSeq(OrderItems, MaxOrder)}

Range(s) == {s[i] : i \in 1..Len(s)}

\* truth value of a str | None: None and the empty string are falsy
Truthy(v) == v \notin {None, ""}

\* score of rank: (keyword_hits, has_defaults)
score(query, candidate) ==
    <<Cardinality({i \in 1..Len(candidate.keywords) :
                     Lower(candidate.keywords[i]) \in query}),
      IF Truthy(candidate.default_value) THEN 1 ELSE 0>>

KeyGreater(a, b) == a[1] > b[1] \/ (a[1] = b[1] /\ a[2] > b[2])

\* sorted(candidates, key=score, reverse=True): stable, highest key first
RECURSIVE SortedDesc(_, _)
SortedDesc(query, s) ==
    IF s = << >> THEN << >>
    ELSE LET n == Len(s)
             head == SortedDesc(query, SubSeq(s, 1, n - 1))
             x == s[n]
             \* x goes behind every element whose key is not smaller
             at == Cardinality({i \in 1..Len(head) :
                       ~KeyGreater(score(query, x), score(query, head[i]))})
         IN  SubSeq(head, 1, at) \o <<x>> \o SubSeq(head, at + 1, Len(head))

Reverse(s) == [i \in 1..Len(s) |-> s[Len(s) + 1 - i]]

\* mutant of rank: sorted(candidates, key=score)[::-1], which turns ties around
rank_ties_reversed(query, candidates) == Reverse(SortedDesc(query, Reverse(candidates)))

rank(query, candidates) == SortedDesc(query, candidates)

\* _parse_facet_order: [] unless the reply is an object whose facet_order is a
\* list; falsy entries are dropped
parse_facet_order(reply) ==
    IF reply.json # "object" THEN << >>
    ELSE IF reply.field = "absent" THEN << >>
    ELSE IF reply.field # "list" THEN << >>
    ELSE SelectSeq(reply.facet_order, LAMBDA item : item # "")

\* by_id = {item.facet.id: item for item in candidates}: the last one wins
by_id(candidates, id) ==
    candidates[CHOOSE i \in 1..Len(candidates) :
                  /\ candidates[i].id = id
                  /\ \A j \in 1..Len(candidates) : candidates[j].id = id => j <= i]

rank_with_llm(query, candidates, reply) ==
    IF candidates = << >> THEN candidates
    ELSE LET order == parse_facet_order(reply)
         IN  IF order = << >> THEN rank(query, candidates)
             ELSE LET ids == {candidates[i].id : i \in 1..Len(candidates)}
                      known == SelectSeq(order, LAMBDA id : id \in ids)
                      ordered == [i \in 1..Len(known) |-> by_id(candidates, known[i])]
                      missing == SelectSeq(candidates,
                                           LAMBDA item : item.id \notin Range(order))
                  IN  ordered \o missing

InitRank ==
    /\ settings = [openai_api_key |-> TRUE, enable_llm_facet_proposals |-> TRUE]
    /\ requests = [r \in RequestIds |-> NoRequest]
    /\ events = {}
    /\ next_id = 1
    /\ clock = 0
    /\ pc = [c \in Calls |-> "idle"]
    /\ call = [c \in Calls |-> NoCall]
    /\ local = [c \in Calls |-> NoLocal]
    /\ returned = [c \in Calls |-> << >>]
    /\ resp = [c \in Calls |-> NoResp]
    /\ overlapped = FALSE
    /\ ranker \in [op : {"called"}, query : RankQueries,
                    candidates : BoundedSeq(CandidatePool, MaxCandidates),
                    reply : RankReplies]
    /\ discovery = Idle
    /\ router_engine = Idle
    /\ compiler = Idle
    /\ catalog = Idle

DoRank ==
    /\ ranker.op = "called"
    /\ ranker' = [op |-> "rank", query |-> ranker.query,
                  candidates |-> ranker.candidates, reply |-> ranker.reply,
                  out |-> rank(ranker.query, ranker.candidates)]
    /\ UNCHANGED <<api_vars, discovery, router_engine, compiler, catalog>>

\* rank applied to what rank returned
DoRankAgain ==
    /\ ranker.op = "rank"
    /\ ranker' = [op |-> "rank", query |-> ranker.query,
                  candidates |-> ranker.out, reply |-> ranker.reply,
                  out |-> rank(ranker.query, ranker.out)]
    /\ UNCHANGED <<api_vars, discovery, router_engine, compiler, catalog>>

DoRankWithLlm ==
    /\ ranker.op = "called"
    /\ ranker' = [op |-> "rank_with_llm", query |-> ranker.query,
                  candidates |-> ranker.candidates, reply |-> ranker.reply,
                  out |-> rank_with_llm(ranker.query, ranker.candidates,
                                        ranker.reply)]
    /\ UNCHANGED <<api_vars, discovery, router_engine, compiler, catalog>>

NextRank == DoRank \/ DoRankWithLlm \/ DoRankAgain

SpecRank == InitRank /\ [][NextRank]_vars

\* --------------------------------------------------- FacetDiscoveryEngine
\* JSON values as json.loads yields them; Absent is a key a dict does not have
Absent == [t |-> "absent"]
JNull == [t |-> "null"]
JStr(s) == [t |-> "str", v |-> s]
JNum(n) == [t |-> "num", v |-> n]
JList(items) == [t |-> "list", v |-> items]
JDict(d) == [t |-> "dict", v |-> d]

\* truth value of a JSON value (and of None for a missing key)
JTruthy(j) ==
    CASE j.t = "str" -> j.v # ""
      [] j.t = "num" -> j.v # 0
      [] j.t = "list" -> j.v # << >>
      [] j.t = "dict" -> TRUE       \* the dicts of the model have keys
      [] OTHER -> FALSE

\* dict.get(key, default)
Get(j, default) == IF j = Absent THEN default ELSE j

\* str(value) for the scalars of the model
Str(j) == IF j.t = "str" THEN j.v ELSE IF j.v = 5 THEN "5" ELSE "0"

\* the outcome of a call that raised
Raised(e) == [raised |-> TRUE, error |-> e]

\* _slugify on the titles of the model: lowercase, runs of other characters
\* become "_", "_" stripped at both ends, "facet" if nothing is left
slugify(text) ==
    CASE text = "Audience" -> "audience"
      [] text = "audience!" -> "audience"
      [] text = "Court Level" -> "court_level"
      [] text = "facet" -> "facet"
      [] text = "?" -> "facet"
      [] text = "" -> "facet"

AllOptions == "all options"

\* a choice entry _to_facet keeps: a dict with a truthy value
IsConcrete(item) == item.t = "dict" /\ JTruthy(item.v.value)

\* iterating item.get("subchoices", []) raises TypeError
SubchoicesRaise(item) == Get(item.v.subchoices, JList(<< >>)).t \in {"null", "num"}

\* Choice(value=str(item["value"]), subchoices=[str(v) for v in ... if v])
make_choice(item) ==
    LET subs == Get(item.v.subchoices, JList(<< >>))
        kept == IF subs.t = "list" THEN SelectSeq(subs.v, JTruthy) ELSE << >>
    IN  [value |-> Str(item.v.value),
         subchoices |-> [i \in 1..Len(kept) |-> Str(kept[i])]]

\* mutant of append_sentinel: compares without lowercasing
append_sentinel_case_sensitive(choices) ==
    IF choices # << >> /\ \A i \in 1..Len(choices) : choices[i].value # AllOptions
    THEN Append(choices, [value |-> AllOptions, subchoices |-> << >>])
    ELSE choices

\* lines 283-284: append the sentinel choice unless one is there
append_sentinel(choices) ==
    IF choices # << >> /\ \A i \in 1..Len(choices) : Lower(choices[i].value) # AllOptions
    THEN Append(choices, [value |-> AllOptions, subchoices |-> << >>])
    ELSE choices

\* lines 289-290 on a list of JSON values: all(val.lower() != "all options")
\* stops at the first sentinel; reaching a value that is no string raises
RECURSIVE sentinel_scan(_)
sentinel_scan(vals) ==
    IF vals = << >> THEN "none"
    ELSE IF Head(vals).t # "str" THEN "raise"
    ELSE IF Lower(Head(vals).v) = AllOptions THEN "found"
    ELSE sentinel_scan(Tail(vals))

\* _to_facet: the Facet, or the exception it raises
to_facet(data) ==
    LET title_arg == Get(data.title, JStr("facet"))
        choices_data == Get(data.choices, JList(<< >>))
        suggested_data == Get(data.suggested_values, JList(<< >>))
    IN  IF ~JTruthy(data.id) /\ title_arg.t # "str"
        THEN Raised("AttributeError")            \* _slugify: text.lower()
        ELSE IF choices_data.t \in {"null", "num"}
        THEN Raised("TypeError")                 \* for item in choices_data
        ELSE
        LET facet_id == IF JTruthy(data.id) THEN Str(data.id)
                        ELSE slugify(title_arg.v)
            items == IF choices_data.t = "list" THEN choices_data.v ELSE << >>
            concrete == SelectSeq(items, IsConcrete)
        IN  IF \E i \in 1..Len(concrete) : SubchoicesRaise(concrete[i])
            THEN Raised("TypeError")
            ELSE IF suggested_data.t \in {"null", "num"}
            THEN Raised("TypeError")             \* list(None)
            ELSE
            LET choices == append_sentinel([i \in 1..Len(concrete) |->
                                               make_choice(concrete[i])])
                given == IF suggested_data.t = "list" THEN suggested_data.v ELSE << >>
                suggested == IF choices # << >> /\ given = << >>
                             THEN [i \in 1..Len(choices) |-> JStr(choices[i].value)]
                             ELSE given
                scan == sentinel_scan(suggested)
            IN  IF suggested # << >> /\ scan = "raise"
                THEN Raised("AttributeError")    \* val.lower()
                ELSE [raised |-> FALSE,
                      id |-> facet_id,
                      title |-> Get(data.title, JStr(facet_id)),
                      keywords |-> Get(data.keywords, JList(<< >>)),
                      suggested_values |->
                          IF suggested # << >> /\ scan = "none"
                          THEN Append(suggested, JStr(AllOptions))
                          ELSE suggested,
                      choices |-> choices,
                      default_value |-> Get(data.default_value, JNull)]

\* keywords a loop "for kw in facet.keywords: kw.lower()" gets through
KeywordsIterable(kws) ==
    kws.t = "list" /\ \A i \in 1..Len(kws.v) : kws.v[i].t = "str"

\* _reason_from_keywords, for keywords it can iterate
reason_from_keywords(query, facet, selected_id) ==
    LET matches == SelectSeq(facet.keywords.v, LAMBDA kw : Lower(kw.v) \in query)
    IN  IF matches # << >> THEN [kind |-> "Matches keywords", of |-> matches]
        ELSE IF selected_id # "" THEN [kind |-> "Refines selection", of |-> <<JStr(selected_id)>>]
        ELSE [kind |-> "Default facet for this domain", of |-> << >>]

\* _parse_llm_payload: the reply as a dict, {} when it is none.  A reply is
\* all JSON ("object", "array"), text around a JSON object ("embedded"), text
\* with braces that do not parse ("broken") or text without braces ("text").
parse_llm_payload(reply) ==
    IF reply.json \in {"object", "embedded"} THEN [facets |-> reply.facets]
    ELSE [facets |-> Absent]

\* _parse_llm_json: the dict entries of the payload's facets list
parse_llm_json(reply) ==
    LET facets == Get(parse_llm_payload(reply).facets, JList(<< >>))
    IN  IF facets.t # "list" THEN << >>
        ELSE SelectSeq(facets.v, LAMBDA item : item.t = "dict")

\* parsed[:max_facets]
first_n(items, n) == SubSeq(items, 1, IF Len(items) < n THEN Len(items) ELSE n)

\* the candidate list of a discovery call, or the first exception of its loop
collect(results) ==
    IF \E i \in 1..Len(results) : results[i].raised
    THEN Raised(results[CHOOSE i \in 1..Len(results) :
                          /\ results[i].raised
                          /\ \A j \in 1..(i - 1) : ~results[j].raised].error)
    ELSE [raised |-> FALSE,
          candidates |-> [i \in 1..Len(results) |->
                             [facet |-> results[i].facet, reason |-> results[i].reason]]]

\* one turn of the loop of discover_round1 / discover_round2
pack_candidate(query, item, selected_id) ==
    LET facet == to_facet(item.v)
    IN  IF facet.raised THEN facet
        ELSE IF ~KeywordsIterable(facet.keywords)
        THEN Raised(IF facet.keywords.t = "list" THEN "AttributeError" ELSE "TypeError")
        ELSE [raised |-> FALSE, facet |-> facet,
              reason |-> reason_from_keywords(query, facet, selected_id)]

\* discover_round1: one candidate per facet definition of the pack
discover_round1(query, pack) ==
    collect([i \in 1..Len(pack.facets) |-> pack_candidate(query, pack.facets[i], "")])

\* one turn of the loop of discover_round1_llm (lines 165-169)
llm_candidate_round1(query, item) ==
    LET facet == to_facet(item.v)
    IN  IF facet.raised THEN facet
        ELSE IF JTruthy(item.v.reason)
        THEN [raised |-> FALSE, facet |-> facet,
              reason |-> [kind |-> "model", of |-> <<item.v.reason>>]]
        ELSE IF ~KeywordsIterable(facet.keywords)
        THEN Raised(IF facet.keywords.t = "list" THEN "AttributeError" ELSE "TypeError")
        ELSE [raised |-> FALSE, facet |-> facet,
              reason |-> reason_from_keywords(query, facet, "")]

discover_round1_llm(query, pack, max_facets, reply) ==
    LET parsed == first_n(parse_llm_json(reply), max_facets)
    IN  collect([i \in 1..Len(parsed) |-> llm_candidate_round1(query, parsed[i])])

\* refinements.get(selected_id, [])
refinements_of(pack, selected_id) ==
    IF \E i \in 1..Len(pack.refinements) : pack.refinements[i].parent = selected_id
    THEN pack.refinements[CHOOSE i \in 1..Len(pack.refinements) :
                             pack.refinements[i].parent = selected_id].facets
    ELSE << >>

RECURSIVE Flatten(_)
Flatten(ss) == IF ss = << >> THEN << >> ELSE Head(ss) \o Flatten(Tail(ss))

\* discover_round2: for each selected id, one candidate per refinement facet
discover_round2(query, pack, selected_ids) ==
    collect(Flatten([k \in 1..Len(selected_ids) |->
        LET items == refinements_of(pack, selected_ids[k])
        IN  [i \in 1..Len(items) |-> pack_candidate(query, items[i], selected_ids[k])]]))

\* an exclude_ids argument: None, or a set of ids
NoExclude == [none |-> TRUE, ids |-> {}]

\* lines 202-207: the ids the instruction payload tells the model not to suggest
exclude_instruction(exclude_ids) ==
    IF ~exclude_ids.none /\ exclude_ids.ids # {} THEN exclude_ids.ids ELSE {}

\* one turn of the loop of discover_round2_llm (lines 264-267)
llm_candidate_round2(item) ==
    LET facet == to_facet(item.v)
    IN  IF facet.raised THEN facet
        ELSE [raised |-> FALSE, facet |-> facet,
              reason |-> IF JTruthy(item.v.reason)
                         THEN [kind |-> "model", of |-> <<item.v.reason>>]
                         ELSE [kind |-> "Derived from user selections", of |-> << >>]]

discover_round2_llm(query, pack, selections, max_facets, reply, exclude_ids) ==
    LET parsed == first_n(parse_llm_json(reply), max_facets)
    IN  collect([i \in 1..Len(parsed) |-> llm_candidate_round2(parsed[i])])

\* a facet definition: the keys _to_facet and its callers read
FacetDef(id, title, choices, suggested_values, keywords, default_value, reason) ==
    [id |-> id, title |-> title, choices |-> choices,
     suggested_values |-> suggested_values, keywords |-> keywords,
     default_value |-> default_value, reason |-> reason]

ChoiceDict(value, subchoices) == JDict([value |-> value, subchoices |-> subchoices])

\* entries of a choices list: concrete choices, sentinels in two spellings, an
\* empty value, a number with null subchoices, an entry that is no dict
ChoiceItems ==
    {ChoiceDict(JStr("x"), Absent),
     ChoiceDict(JStr("All Options"), JList(<<JStr("s"), JStr("")>>)),
     ChoiceDict(JStr("all options"), Absent),
     ChoiceDict(JStr(""), Absent),
     ChoiceDict(JNum(5), JNull),
     JStr("x")}

ChoicesValues ==
    {Absent, JNull} \cup {JList(l) : l \in BoundedSeq(ChoiceItems, MaxChoices)}

SuggestedItems == {JStr("x"), JStr("All Options"), JStr("all options"), JNum(5)}

SuggestedValues ==
    {Absent, JNull} \cup {JList(l) : l \in BoundedSeq(SuggestedItems, MaxSuggested)}

\* definitions handed to _to_facet alone
FacetDefs ==
    {FacetDef(id, title, choices, suggested, Absent, Absent, Absent) :
        id \in {Absent, JNull, JStr("audience")},
        title \in {Absent, JNull, JStr("audience!"), JStr("?")},
        choices \in ChoicesValues,
        suggested \in SuggestedValues}

OneChoice == JList(<<ChoiceDict(JStr("x"), Absent)>>)

\* entries of a facets list the model replies with: well-formed facets (two
\* of them slug to the id "audience"), facets with fields of unexpected shape,
\* an entry that is no dict
ReplyItems ==
    {JDict(FacetDef(JStr("audience"), JStr("Audience"), OneChoice, Absent,
                    JList(<<JStr("Who")>>), JStr("x"), JStr("because"))),
     JDict(FacetDef(Absent, JStr("audience!"), OneChoice, Absent,
                    Absent, Absent, Absent)),
     JDict(FacetDef(Absent, JNull, OneChoice, Absent, Absent, Absent, Absent)),
     JDict(FacetDef(JStr("depth"), JStr("Depth"), JNull, Absent,
                    Absent, Absent, JStr("because"))),
     JDict(FacetDef(JStr("format"), JStr("Format"), OneChoice, JList(<<JNum(5)>>),
                    Absent, Absent, Absent)),
     JDict(FacetDef(JStr("depth"), JStr("Depth"), Absent, Absent,
                    JNull, Absent, Absent)),
     JStr("junk")}

\* replies of the generative model to a discovery prompt
DiscoveryReplies ==
    {[json |-> j, facets |-> Absent] : j \in {"text", "broken", "array", "object"}}
    \cup {[json |-> "object", facets |-> JStr("none")]}
    \cup {[json |-> j, facets |-> JList(l)] :
             j \in {"object", "embedded"}, l \in BoundedSeq(ReplyItems, MaxReplyFacets)}

PackFacet(id, title, keywords, default_value) ==
    JDict(FacetDef(id, title, OneChoice, Absent, keywords, default_value, Absent))

\* domain packs (load_pack): base facets, and refinement facets by parent id.
\* In the universal pack the parents audience and format share the refinement
\* facet depth; the legal pack names its refinement facet by title only.
PackPool ==
    {[domain |-> "universal",
      facets |-> <<PackFacet(JStr("audience"), JStr("Audience"),
                             JList(<<JStr("Who")>>), JStr("x")),
                   PackFacet(JStr("format"), JStr("Format"), Absent, Absent)>>,
      refinements |->
          <<[parent |-> "audience",
             facets |-> <<PackFacet(JStr("depth"), JStr("Depth"), Absent, Absent)>>],
            [parent |-> "format",
             facets |-> <<PackFacet(JStr("depth"), JStr("Depth"), Absent, JStr("x")),
                          PackFacet(JStr("layout"), JStr("Layout"), Absent, Absent)>>]>>],
     [domain |-> "legal",
      facets |-> <<PackFacet(JStr("jurisdiction"), JStr("Jurisdiction"),
                             Absent, Absent)>>,
      refinements |->
          <<[parent |-> "jurisdiction",
             facets |-> <<PackFacet(Absent, JStr("Court Level"), Absent, Absent)>>]>>]}

\* lowercased queries, as the set of lowercase words that occur in them
DiscoveryQueries == {{}, {"who"}}

\* a discovered candidate as FacetRanker.rank reads it
as_ranked(c) ==
    [id |-> c.facet.id,
     keywords |-> [i \in 1..Len(c.facet.keywords.v) |-> c.facet.keywords.v[i].v],
     default_value |-> IF c.facet.default_value.t = "str"
                       THEN c.facet.default_value.v ELSE None,
     facet |-> c.facet, reason |-> c.reason]

\* routes.py, the tail discover and refine share: rank, truncate, serialize.
\* rank raises on keywords it cannot iterate, the response model on a title
\* that is no string.
facets_response(query, found) ==
    IF found.raised THEN [status |-> 500]
    ELSE IF \E i \in 1..Len(found.candidates) :
               ~KeywordsIterable(found.candidates[i].facet.keywords)
    THEN [status |-> 500]
    ELSE LET ranked == rank(query, [i \in 1..Len(found.candidates) |->
                                       as_ranked(found.candidates[i])])
             limited == limit(ranked)
         IN  IF \E i \in 1..Len(limited) : limited[i].facet.title.t # "str"
             THEN [status |-> 500]
             ELSE [status |-> 200,
                   facet_candidates |->
                       [i \in 1..Len(limited) |->
                           [id |-> limited[i].id, title |-> limited[i].facet.title.v,
                            reason |-> limited[i].reason]]]

\* discover, lines 72-85 and 105-113: the facets of the response
discover_facets(config, query, pack, reply) ==
    IF config.enable_llm_facet_proposals
    THEN IF ~config.openai_api_key THEN [status |-> 400]
         ELSE facets_response(query,
                  discover_round1_llm(query, pack, max_facet_questions, reply))
    ELSE facets_response(query, discover_round1(query, pack))

\* {selection.id: selection.value for ...}: the keys in insertion order
RECURSIVE dict_keys(_)
dict_keys(ids) ==
    IF ids = << >> THEN << >>
    ELSE LET front == dict_keys(SubSeq(ids, 1, Len(ids) - 1))
             last == ids[Len(ids)]
         IN  IF last \in Range(front) THEN front ELSE Append(front, last)

\* refine, lines 129-138: the exclude_ids argument of discover_round2_llm
refine_exclude_ids(payload) == NoExclude

\* refine, lines 126-127 and 140-142: the ids handed to discover_round2
refine_selected_ids(pack, payload) ==
    LET selected_ids == dict_keys(payload.facet_selections)
    IN  IF selected_ids # << >> THEN selected_ids
        ELSE first_n([i \in 1..Len(pack.refinements) |-> pack.refinements[i].parent],
                     max_facet_questions)

\* refine, lines 122-157, for a stored request: which discovery call it makes,
\* with which exclusion set, what the prompt tells the model, the response
refine_facets(config, query, pack, payload, reply) ==
    IF round_limit_reached(payload.refine_round)
    THEN [called |-> "none", exclude_ids |-> NoExclude, instructed |-> {},
          resp |-> [status |-> 200, facet_candidates |-> << >>]]
    ELSE IF config.enable_llm_facet_proposals
    THEN IF ~config.openai_api_key
         THEN [called |-> "none", exclude_ids |-> NoExclude, instructed |-> {},
               resp |-> [status |-> 400]]
         ELSE LET exclude_ids == refine_exclude_ids(payload)
              IN  [called |-> "discover_round2_llm",
                   exclude_ids |-> exclude_ids,
                   instructed |-> exclude_instruction(exclude_ids),
                   resp |-> facets_response(query,
                       discover_round2_llm(query, pack, payload.facet_selections,
                                           max_facet_questions, reply, exclude_ids))]
    ELSE [called |-> "discover_round2", exclude_ids |-> NoExclude, instructed |-> {},
          resp |-> facets_response(query,
              discover_round2(query, pack, refine_selected_ids(pack, payload)))]

SelectableIds == {"audience", "format", "zz"}

Configs == [openai_api_key : BOOLEAN, enable_llm_facet_proposals : BOOLEAN]

\* the calls the discovery engine and the two handlers around it can get
ToFacetCalls == [op : {"called"}, fn : {"_to_facet"}, data : FacetDefs]

DiscoveryCalls ==
    [op : {"called"}, fn : {"discover_round1", "discover_round2"},
          query : DiscoveryQueries, pack : PackPool,
          selected_ids : BoundedSeq(SelectableIds, MaxSelections)]
    \cup [op : {"called"}, fn : {"discover_round1_llm", "discover_round2_llm"},
          query : DiscoveryQueries, pack : PackPool, max_facets : {1, max_facet_questions},
          reply : DiscoveryReplies, exclude_ids : {NoExclude, [none |-> FALSE, ids |-> {"audience"}]}]
    \cup [op : {"called"}, fn : {"discover"}, config : Configs,
          query : DiscoveryQueries, pack : PackPool, reply : DiscoveryReplies]
    \cup [op : {"called"}, fn : {"refine"}, config : Configs,
          query : {{"who"}}, pack : PackPool,
          payload : [facet_selections : BoundedSeq(SelectableIds, MaxSelections),
                     refine_round : RefineRounds,
                     exclude_facet_ids : {{}, {"audience"}, {"audience", "depth"}}],
          reply : DiscoveryReplies]

\* the store and the handlers at rest, while one component is called alone
ApiAtRest ==
    /\ settings = [openai_api_key |-> TRUE, enable_llm_facet_proposals |-> TRUE]
    /\ requests = [r \in RequestIds |-> NoRequest]
    /\ events = {}
    /\ next_id = 1
    /\ clock = 0
    /\ pc = [c \in Calls |-> "idle"]
    /\ call = [c \in Calls |-> NoCall]
    /\ local = [c \in Calls |-> NoLocal]
    /\ returned = [c \in Calls |-> << >>]
    /\ resp = [c \in Calls |-> NoResp]
    /\ overlapped = FALSE

InitToFacet ==
    /\ ApiAtRest
    /\ ranker = Idle
    /\ discovery \in ToFacetCalls
    /\ router_engine = Idle
    /\ compiler = Idle
    /\ catalog = Idle

InitDiscovery ==
    /\ ApiAtRest
    /\ ranker = Idle
    /\ discovery \in DiscoveryCalls
    /\ router_engine = Idle
    /\ compiler = Idle
    /\ catalog = Idle

Done(d, out) == [op |-> "done", in |-> d, out |-> out]

DoToFacet ==
    /\ discovery.op = "called" /\ discovery.fn = "_to_facet"
    /\ discovery' = Done(discovery, to_facet(discovery.data))
    /\ UNCHANGED <<api_vars, ranker, router_engine, compiler, catalog>>

DoDiscoverRound1 ==
    /\ discovery.op = "called" /\ discovery.fn = "discover_round1"
    /\ discovery' = Done(discovery, discover_round1(discovery.query, discovery.pack))
    /\ UNCHANGED <<api_vars, ranker, router_engine, compiler, catalog>>

DoDiscoverRound1Llm ==
    /\ discovery.op = "called" /\ discovery.fn = "discover_round1_llm"
    /\ discovery' = Done(discovery,
           discover_round1_llm(discovery.query, discovery.pack,
                               discovery.max_facets, discovery.reply))
    /\ UNCHANGED <<api_vars, ranker, router_engine, compiler, catalog>>

DoDiscoverRound2 ==
    /\ discovery.op = "called" /\ discovery.fn = "discover_round2"
    /\ discovery' = Done(discovery,
           discover_round2(discovery.query, discovery.pack, discovery.selected_ids))
    /\ UNCHANGED <<api_vars, ranker, router_engine, compiler, catalog>>

DoDiscoverRound2Llm ==
    /\ discovery.op = "called" /\ discovery.fn = "discover_round2_llm"
    /\ discovery' = Done(discovery,
           discover_round2_llm(discovery.query, discovery.pack, << >>,
                               discovery.max_facets, discovery.reply,
                               discovery.exclude_ids))
    /\ UNCHANGED <<api_vars, ranker, router_engine, compiler, catalog>>

DoDiscoverFacets ==
    /\ discovery.op = "called" /\ discovery.fn = "discover"
    /\ discovery' = Done(discovery,
           discover_facets(discovery.config, discovery.query, discovery.pack,
                           discovery.reply))
    /\ UNCHANGED <<api_vars, ranker, router_engine, compiler, catalog>>

DoRefineFacets ==
    /\ discovery.op = "called" /\ discovery.fn = "refine"
    /\ discovery' = Done(discovery,
           refine_facets(discovery.config, discovery.query, discovery.pack,
                         discovery.payload, discovery.reply))
    /\ UNCHANGED <<api_vars, ranker, router_engine, compiler, catalog>>

NextToFacet == DoToFacet

SpecToFacet == InitToFacet /\ [][NextToFacet]_vars

NextDiscovery ==
    \/ DoDiscoverRound1
    \/ DoDiscoverRound1Llm
    \/ DoDiscoverRound2
    \/ DoDiscoverRound2Llm
    \/ DoDiscoverFacets
    \/ DoRefineFacets

SpecDiscovery == InitDiscovery /\ [][NextDiscovery]_vars

\* ------------------------------------------------------------ DomainRouter
\* Strings the router compares by substring are sequences of chunks of
\* characters; " " is a chunk of whitespace.
LowerText(text) == [i \in 1..Len(text) |-> Lower(text[i])]

\* str.strip()
RECURSIVE StripLeft(_)
StripLeft(text) ==
    IF text # << >> /\ Head(text) = " " THEN StripLeft(Tail(text)) ELSE text

Strip(text) == Reverse(StripLeft(Reverse(StripLeft(text))))

\* needle in hay
Contains(hay, needle) ==
    \E k \in 0..(Len(hay) - Len(needle)) :
        SubSeq(hay, k + 1, k + Len(needle)) = needle

Universal == <<"universal">>

\* pack files a packs directory can hold, by stem
RouterFacet(title, question, choices) ==
    [title |-> title, question |-> question, choices |-> choices]

RouterPacks ==
    {[name |-> <<"legal">>,
      keywords |-> <<<<"law">>, <<"Court", " ", "case">>, <<"zoning", " ", "appeal">>>>,
      facets |-> <<RouterFacet(<<"Jurisdiction">>, << >>, << >>)>>],
     [name |-> <<"qda", "_", "griffons">>,
      keywords |-> <<<<"funding">>>>,
      facets |-> <<RouterFacet(<<"Need">>, <<"Which", " ", "need">>,
                     <<[value |-> <<"Programs">>, subchoices |-> <<<<"grant">>, << >>>>],
                       [value |-> <<"law">>, subchoices |-> << >>]>>)>>],
     [name |-> Universal,
      keywords |-> <<<<"general">>>>,
      facets |-> <<RouterFacet(<<"Audience">>, << >>, << >>)>>],
     [name |-> <<"zoning">>,
      keywords |-> <<<<"general", " ", "plan">>, <<"law">>>>,
      facets |-> << >>]}

\* sorted(stems)
SortedNames == <<<<"legal">>, <<"qda", "_", "griffons">>, Universal, <<"zoning">>>>

\* mutant of available_packs: the stems in descending order
available_packs_descending(dir) ==
    Reverse(SelectSeq(SortedNames, LAMBDA n : \E pack \in dir : pack.name = n))

\* available_packs: the stems of the directory's files, sorted
available_packs(dir) ==
    SelectSeq(SortedNames, LAMBDA n : \E pack \in dir : pack.name = n)

load_pack(dir, name) == CHOOSE pack \in dir : pack.name = name

\* _pack_terms: keywords, facet titles and questions, choice values and
\* subchoices, lowercased, empty ones dropped
pack_terms(pack) ==
    LET of_choice(choice) ==
            IF choice.value # << >> THEN <<choice.value>> \o choice.subchoices
            ELSE << >>
        of_facet(facet) ==
            SelectSeq(<<facet.title, facet.question>>, LAMBDA v : v # << >>)
            \o Flatten([i \in 1..Len(facet.choices) |-> of_choice(facet.choices[i])])
        terms == pack.keywords
                 \o Flatten([i \in 1..Len(pack.facets) |-> of_facet(pack.facets[i])])
        kept == SelectSeq(terms, LAMBDA term : term # << >>)
    IN  [i \in 1..Len(kept) |-> LowerText(kept[i])]

\* line 54: the number of terms that occur in the query
term_score(pack, query) ==
    LET terms == pack_terms(pack)
    IN  Cardinality({i \in 1..Len(terms) : terms[i] # << >> /\ Contains(query, terms[i])})

\* lines 39-44: the hint names the pack, or is part of one of its keywords
hint_accepts(normalized, pack) ==
    \/ normalized = pack.name
    \/ Contains(pack.name, normalized)
    \/ Contains(normalized, pack.name)
    \/ \E i \in 1..Len(pack.keywords) : Contains(LowerText(pack.keywords[i]), normalized)

\* mutant of better_score: >= in place of >
better_or_equal_score(candidate_score, best_score) == candidate_score >= best_score

\* line 55: if score > best_score
better_score(candidate_score, best_score) == candidate_score > best_score

\* lines 46-59: the loop over the packs, universal left out
RECURSIVE best_pack_of(_, _, _, _)
best_pack_of(dir, names, query, best) ==
    IF names = << >> THEN best.pack
    ELSE IF Head(names) = Universal THEN best_pack_of(dir, Tail(names), query, best)
    ELSE LET sc == term_score(load_pack(dir, Head(names)), query)
         IN  best_pack_of(dir, Tail(names), query,
                          IF better_score(sc, best.score)
                          THEN [pack |-> Head(names), score |-> sc] ELSE best)

NoHint == [given |-> FALSE, text |-> << >>]
Hint(text) == [given |-> TRUE, text |-> text]

\* choose_pack
choose_pack(dir, raw_query, domain_hint) ==
    LET names == available_packs(dir)
        normalized == LowerText(Strip(domain_hint.text))
        accepted == SelectSeq(names, LAMBDA n : hint_accepts(normalized, load_pack(dir, n)))
    IN  IF domain_hint.given /\ domain_hint.text # << >> /\ accepted # << >>
        THEN Head(accepted)
        ELSE best_pack_of(dir, names, LowerText(raw_query),
                          [pack |-> Universal, score |-> 0])

RouterQueries ==
    {<< >>,
     <<"my", " ", "Court", " ", "case">>,
     <<"grant">>,
     <<"audience">>,
     <<"law", " ", "funding">>,
     <<"general", " ", "plan">>,
     <<"audience", " ", "general", " ", "law">>}

RouterHints ==
    {NoHint, Hint(<< >>), Hint(<<" ">>), Hint(<<"Legal">>), Hint(<<" ", "legal", " ">>),
     Hint(<<"qda">>), Hint(<<"legal", " ", "advice">>), Hint(<<"law">>),
     Hint(<<"Universal">>), Hint(<<"general">>), Hint(<<"nomatch">>),
     Hint(<<" ", "Zoning">>)}

InitRouter ==
    /\ ApiAtRest
    /\ ranker = Idle
    /\ discovery = Idle
    /\ router_engine \in [op : {"called"}, dir : SUBSET RouterPacks,
                           raw_query : RouterQueries, domain_hint : RouterHints]
    /\ compiler = Idle
    /\ catalog = Idle

DoChoosePack ==
    /\ router_engine.op = "called"
    /\ router_engine' = Done(router_engine,
           choose_pack(router_engine.dir, router_engine.raw_query,
                       router_engine.domain_hint))
    /\ UNCHANGED <<api_vars, ranker, discovery, compiler, catalog>>

NextRouter == DoChoosePack

SpecRouter == InitRouter /\ [][NextRouter]_vars

\* ------------------------------------------------------------ CatalogSearch
\* Scores are counted in hundredths: 0.1 is 10 and 1.0 is 100.  A dict is a
\* record of the keys it has; a string the code searches is a sequence of
\* chunks, written in ASCII.
EmptyDict == [k \in {} |-> 0]

\* dict.get(key, default)
dict_get(d, k, default) == IF k \in DOMAIN d THEN d[k] ELSE default

\* float("inf")
Inf == 1000000000

Nothing == [none |-> TRUE]
Just(v) == [none |-> FALSE, v |-> v]

\* a selections dict, in insertion order
Item(facet_id, value) == [facet_id |-> facet_id, value |-> value]

\* any(kw in value_lower for kw in kws)
has_any(value_lower, kws) == \E kw \in kws : Contains(value_lower, <<kw>>)

\* lines 121-127, in the order of the dict
needs_map ==
    <<[key |-> "financement",
       keywords |-> {"financement", "pret", "subvention", "investisseur", "garantie"}],
      [key |-> "formation",
       keywords |-> {"formation", "gestion", "digital", "commercial", "export"}],
      [key |-> "accompagnement",
       keywords |-> {"accompagnement", "mentorat", "coaching", "reseau", "conseil"}],
      [key |-> "recrutement",
       keywords |-> {"recrutement", "alternance", "stage", "cdi", "equipe"}],
      [key |-> "formalites",
       keywords |-> {"formalites", "creation", "modification", "certifications"}]>>

\* lines 134-145, in the order of the tests
profiles_map ==
    <<[key |-> "femme", keywords |-> {"femme"}],
      [key |-> "jeune", keywords |-> {"jeune", "< 26"}],
      [key |-> "senior", keywords |-> {"senior", "> 50"}],
      [key |-> "handicap", keywords |-> {"handicap", "rqth"}],
      [key |-> "demandeur_emploi", keywords |-> {"demandeur", "chomage"}],
      [key |-> "rsa", keywords |-> {"rsa"}]>>

\* the keys of a map whose keywords occur in the value, in the map's order
matched_keys(map, value_lower) ==
    LET hit == SelectSeq(map, LAMBDA e : has_any(value_lower, e.keywords))
    IN  [i \in 1..Len(hit) |-> hit[i].key]

\* lines 74-151: one item of the selections
parse_item(parsed, facet_id, value) ==
    LET v == LowerText(value.v)
    IN  IF value = JNull THEN parsed
        ELSE IF facet_id = "business_stage" THEN
            IF has_any(v, {"idee", "projet"})
            THEN [parsed EXCEPT !.stage = "idee", !.years = Just(0)]
            ELSE IF has_any(v, {"< 2 ans", "jeune"})
            THEN [parsed EXCEPT !.stage = "jeune", !.years = Just(1)]
            ELSE IF has_any(v, {"2-5 ans", "etablie"})
            THEN [parsed EXCEPT !.stage = "etablie", !.years = Just(3)]
            ELSE IF has_any(v, {"> 5 ans", "mature"})
            THEN [parsed EXCEPT !.stage = "mature", !.years = Just(6)]
            ELSE parsed
        ELSE IF facet_id = "revenue_range" THEN
            IF has_any(v, {"pas encore"}) THEN [parsed EXCEPT !.revenue = Just(0)]
            ELSE IF has_any(v, {"moins de 50", "< 50"})
            THEN [parsed EXCEPT !.revenue = Just(25000)]
            ELSE IF has_any(v, {"50 000"}) /\ has_any(v, {"100 000"})
            THEN [parsed EXCEPT !.revenue = Just(75000)]
            ELSE IF has_any(v, {"100 000"}) /\ has_any(v, {"500 000"})
            THEN [parsed EXCEPT !.revenue = Just(250000)]
            ELSE IF has_any(v, {"plus de 500", "> 500"})
            THEN [parsed EXCEPT !.revenue = Just(600000)]
            ELSE parsed
        ELSE IF facet_id = "employees" THEN
            IF has_any(v, {"solo", "seul"}) THEN [parsed EXCEPT !.employees = Just(0)]
            ELSE IF has_any(v, {"1 a 5", "1-5"}) THEN [parsed EXCEPT !.employees = Just(3)]
            ELSE IF has_any(v, {"6 a 20", "6-20"}) THEN [parsed EXCEPT !.employees = Just(10)]
            ELSE IF has_any(v, {"plus de 20", "> 20"})
            THEN [parsed EXCEPT !.employees = Just(25)]
            ELSE parsed
        ELSE IF facet_id = "main_need"
        THEN [parsed EXCEPT !.needs = @ \o matched_keys(needs_map, v)]
        ELSE IF facet_id = "profile"
        THEN [parsed EXCEPT !.profiles = @ \o matched_keys(profiles_map, v)]
        ELSE IF facet_id = "location" THEN
            IF has_any(v, {"ile-de-france", "idf", "paris", "93", "seine-saint-denis"})
            THEN [parsed EXCEPT !.location = Just(<<"ile-de-france">>)]
            ELSE [parsed EXCEPT !.location = Just(v)]
        ELSE parsed

\* _parse_selections
RECURSIVE parse_from(_, _)
parse_from(parsed, items) ==
    IF items = << >> THEN parsed
    ELSE parse_from(parse_item(parsed, Head(items).facet_id, Head(items).value),
                    Tail(items))

parse_selections(selections) ==
    parse_from([years |-> Nothing, revenue |-> Nothing, employees |-> Nothing,
                needs |-> << >>, profiles |-> << >>, location |-> Nothing,
                stage |-> None],
               selections)

\* mutant of free_bonus: a service without a price is not taken as free
free_bonus_priced_only(service) ==
    IF "price" \in DOMAIN service /\ service.price = 0 THEN 5 ELSE 0

\* lines 225-227: a price of 0, or no price, is free
free_bonus(service) == IF dict_get(service, "price", 0) = 0 THEN 5 ELSE 0

\* lines 161-231: the sum before the cap
match_score_sum(service, parsed) ==
    LET eligibility == dict_get(service, "eligibility", EmptyDict)
        within(x, lo, hi) == lo <= x.v /\ x.v <= hi
        years ==
            IF parsed.years.none THEN 0
            ELSE IF within(parsed.years, dict_get(eligibility, "min_years", 0),
                           dict_get(eligibility, "max_years", 100)) THEN 15
            ELSE IF parsed.years.v < dict_get(eligibility, "min_years", 0) THEN -5
            ELSE 0
        revenue ==
            IF parsed.revenue.none THEN 0
            ELSE IF within(parsed.revenue, dict_get(eligibility, "min_revenue", 0),
                           dict_get(eligibility, "max_revenue", Inf)) THEN 15
            ELSE IF parsed.revenue.v < dict_get(eligibility, "min_revenue", 0) THEN 2
            ELSE 0
        employees ==
            IF parsed.employees.none THEN 0
            ELSE IF within(parsed.employees, dict_get(eligibility, "min_employees", 0),
                           dict_get(eligibility, "max_employees", Inf)) THEN 10
            ELSE 0
        profile_eligibility == dict_get(eligibility, "profile", << >>)
        profiles ==
            25 * Cardinality({i \in 1..Len(parsed.profiles) :
                                parsed.profiles[i] \in Range(profile_eligibility)})
        category == dict_get(service, "category", << >>)
        subcategory == dict_get(service, "subcategory", << >>)
        tags == dict_get(service, "tags", << >>)
        in_category(need) == Contains(category, <<need>>) \/ Contains(subcategory, <<need>>)
        in_tags(need) == \E t \in 1..Len(tags) : Contains(tags[t], <<need>>)
        needs ==
            20 * Cardinality({i \in 1..Len(parsed.needs) : in_category(parsed.needs[i])})
            + 10 * Cardinality({i \in 1..Len(parsed.needs) : in_tags(parsed.needs[i])})
        loc_eligibility == dict_get(eligibility, "location", <<"all">>)
        location ==
            IF parsed.location.none \/ parsed.location = Just(<< >>) THEN 0
            ELSE IF loc_eligibility = <<"all">> THEN 5
            ELSE IF Contains(LowerText(loc_eligibility), parsed.location.v) THEN 15
            ELSE IF Contains(LowerText(loc_eligibility), <<"qpv">>) THEN 10
            ELSE 0
        free == free_bonus(service)
        flagship ==
            IF dict_get(service, "provider", None) = "Quartiers d'Affaires" THEN 10 ELSE 0
    IN  10 + years + revenue + employees + profiles + needs + location + free + flagship

\* mutant of cap: the sum is returned as it is
no_cap(total) == total

\* line 233: min(score, 1.0)
cap(total) == IF total < 100 THEN total ELSE 100

\* _calculate_match_score
calculate_match_score(service, parsed) == cap(match_score_sum(service, parsed))

\* list.sort(key=_score, reverse=True): stable, highest score first.  The
\* sums of the model are exact; two floats of the code whose exact sums are
\* equal can differ in the last bit, and then the code orders them by that bit.
RECURSIVE sort_by_score(_)
sort_by_score(items) ==
    IF items = << >> THEN << >>
    ELSE LET front == sort_by_score(SubSeq(items, 1, Len(items) - 1))
             last == items[Len(items)]
             ahead == SelectSeq(front, LAMBDA x : x._score >= last._score)
             behind == SelectSeq(front, LAMBDA x : x._score < last._score)
         IN  ahead \o <<last>> \o behind

\* filter_services: the services that score above 0, best first, cut to
\* max_results; each carries its _score
filter_services(services, selections, max_results) ==
    LET parsed == parse_selections(selections)
        scored == [i \in 1..Len(services) |->
                     [service |-> services[i],
                      _score |-> calculate_match_score(services[i], parsed)]]
        kept == SelectSeq(scored, LAMBDA x : x._score > 0)
    IN  first_n(sort_by_score(kept), max_results)

\* records a services.json can hold
Services ==
    <<[id |-> "grandir", name |-> "GRANDIR", description |-> "Pret de croissance",
       provider |-> "Quartiers d'Affaires", price |-> 0,
       category |-> <<"financement">>, subcategory |-> <<"pret", " ", "croissance">>,
       tags |-> <<<<"financement">>, <<"formation", " ", "gestion">>>>,
       eligibility |-> [min_years |-> 2, max_years |-> 5,
                        min_revenue |-> 50000, max_revenue |-> 500000,
                        min_employees |-> 1, max_employees |-> 20,
                        profile |-> <<"femme", "jeune">>,
                        location |-> <<"Ile-de-France", " ", "qpv">>]],
      [id |-> "bourse", name |-> "Bourse", description |-> "Bourse de formation",
       provider |-> "Region", price |-> 120,
       category |-> <<"formation">>, subcategory |-> << >>, tags |-> << >>,
       eligibility |-> [min_years |-> 2, min_revenue |-> 50000,
                        min_employees |-> 1, location |-> <<"qpv">>]],
      [id |-> "guide"],
      [id |-> "atelier", price |-> 0, category |-> <<"accompagnement">>,
       eligibility |-> EmptyDict],
      [id |-> "club", provider |-> "Quartiers d'Affaires", price |-> 40,
       category |-> <<"reseau">>, tags |-> <<<<"conseil">>>>,
       eligibility |-> [max_years |-> 1, max_revenue |-> 25000, max_employees |-> 0,
                        profile |-> <<"rsa">>, location |-> <<"lyon">>]],
      [id |-> "salon", provider |-> "Quartiers d'Affaires", price |-> 30,
       category |-> <<"reseau">>, eligibility |-> EmptyDict],
      [id |-> "audit", provider |-> "Cabinet", price |-> 200,
       category |-> <<"conseil">>, tags |-> <<<<"gestion">>>>,
       eligibility |-> EmptyDict]>>

\* the catalogs of the model: the first services of the list
Catalogs == {first_n(Services, n) : n \in 0..MaxServices}

\* the values a selection of each catalog facet can have
CatalogFacetValues ==
    [business_stage |-> {Absent, JNull, JStr(<<"projet">>),
                         JStr(<<"Jeune", " ", "< 2 ans">>), JStr(<<"2-5 ans">>)},
     revenue_range |-> {Absent, JStr(<<"pas encore">>),
                        JStr(<<"50 000", " ", "100 000">>), JStr(<<"plus de 500">>)},
     employees |-> {Absent, JStr(<<"solo">>), JStr(<<"6-20">>)},
     main_need |-> {Absent, JStr(<<"financement">>),
                    JStr(<<"formation", " ", "conseil">>), JStr(<<"autre">>)},
     profile |-> {Absent, JStr(<<"femme">>), JStr(<<"Femme", " ", "jeune", " ", "rsa">>)},
     location |-> {Absent, JStr(<< >>), JStr(<<"Paris">>), JStr(<<"lyon">>)}]

CatalogFacetIds ==
    <<"search_type", "service_sector", "business_stage", "revenue_range", "employees",
      "main_need", "profile", "location">>

\* the selections dict that holds the chosen value of each facet
selections_of(choice) ==
    LET present == SelectSeq(CatalogFacetIds,
                       LAMBDA f : f \in DOMAIN choice /\ choice[f] # Absent)
    IN  [i \in 1..Len(present) |-> Item(present[i], choice[present[i]])]

CatalogSelections ==
    {selections_of(choice) :
        choice \in [business_stage : CatalogFacetValues.business_stage,
                    revenue_range : CatalogFacetValues.revenue_range,
                    employees : CatalogFacetValues.employees,
                    main_need : CatalogFacetValues.main_need,
                    profile : CatalogFacetValues.profile,
                    location : CatalogFacetValues.location]}

CatalogCalls ==
    [op : {"called"}, fn : {"_calculate_match_score"},
     service : Range(Services), selections : CatalogSelections]
    \cup [op : {"called"}, fn : {"filter_services"},
          services : Catalogs, selections : CatalogSelections,
          max_results : {1, default_max_results}]

InitCatalog ==
    /\ ApiAtRest
    /\ ranker = Idle
    /\ discovery = Idle
    /\ router_engine = Idle
    /\ compiler = Idle
    /\ catalog \in CatalogCalls

DoCalculateMatchScore ==
    /\ catalog.op = "called" /\ catalog.fn = "_calculate_match_score"
    /\ catalog' = Done(catalog,
           calculate_match_score(catalog.service, parse_selections(catalog.selections)))
    /\ UNCHANGED <<api_vars, ranker, discovery, router_engine, compiler>>

DoFilterServices ==
    /\ catalog.op = "called" /\ catalog.fn = "filter_services"
    /\ catalog' = Done(catalog,
           filter_services(catalog.services, catalog.selections, catalog.max_results))
    /\ UNCHANGED <<api_vars, ranker, discovery, router_engine, compiler>>

NextCatalog == DoCalculateMatchScore \/ DoFilterServices

SpecCatalog == InitCatalog /\ [][NextCatalog]_vars

\* ------------------------------------------------------------ MemberSearch
\* Member scores are counted in hundredths, ratings in tenths.  The fields of
\* a member that are only displayed (contact, founder) are not part of the
\* model.

\* records a members.json and a sectors.json can hold
Members ==
    <<[id |-> "m1", company_name |-> <<"Pixel">>, description |-> <<"web", " ", "agency">>,
       sector |-> <<"digital">>, sector_label |-> <<"IT", " & ", "Digital">>,
       services |-> <<<<"web", " ", "design">>, <<"seo">>>>,
       location |-> [department |-> "93", region |-> <<"Ile-de-France">>,
                     city |-> <<"Montreuil">>, department_name |-> <<"Seine-Saint-Denis">>],
       stats |-> [rating |-> 48, reviews_count |-> 12],
       qda_member |-> [program |-> "GRANDIR"]],
      [id |-> "m2", company_name |-> <<"Echo">>, description |-> <<"brand", " ", "studio">>,
       sector |-> <<"marketing">>, sector_label |-> <<"Marketing">>,
       services |-> << >>,
       location |-> [department |-> "69", region |-> <<"Auvergne-", "Rhone", "-Alpes">>,
                     city |-> <<"Lyon">>, department_name |-> <<"Rhone">>],
       stats |-> [rating |-> 41, reviews_count |-> 3],
       qda_member |-> EmptyDict],
      [id |-> "m3", company_name |-> <<"Lex">>, description |-> <<"law", " ", "firm">>,
       sector |-> <<"legal">>, sector_label |-> <<"Legal">>,
       services |-> <<<<"contracts">>>>,
       location |-> [department |-> "75", region |-> <<"Ile-de-France">>,
                     city |-> <<"Paris">>, department_name |-> <<"Paris">>],
       stats |-> [rating |-> 20, reviews_count |-> 0],
       qda_member |-> EmptyDict],
      [id |-> "m4", company_name |-> <<"Atelier", " ", "web">>, description |-> << >>,
       sector |-> <<"craft">>, sector_label |-> <<"Craft">>,
       services |-> << >>,
       location |-> [department |-> "93", region |-> <<"Ile-de-France">>,
                     city |-> <<"Pantin">>, department_name |-> <<"Seine-Saint-Denis">>],
       stats |-> [rating |-> 30, reviews_count |-> 0],
       qda_member |-> EmptyDict]>>

Sectors ==
    <<[id |-> <<"digital">>, name |-> <<"IT", " & ", "Digital">>,
       keywords |-> <<<<"web">>, <<"software">>>>],
      [id |-> <<"marketing">>, name |-> <<"Marketing">>,
       keywords |-> <<<<"digital", " ", "marketing">>, <<"seo">>>>],
      [id |-> <<"legal">>, name |-> <<"Legal">>, keywords |-> <<<<"law">>>>]>>

\* _sector_matches_keywords: the sector's entry of the index (the last one
\* with its id), its keywords either way round, then its name
sector_matches_keywords(sectors, member_sector, search_term) ==
    IF \A i \in 1..Len(sectors) : sectors[i].id # member_sector
    THEN search_term = << >>
    ELSE \E i \in 1..Len(sectors) :
        /\ sectors[i].id = member_sector
        /\ \A j \in (i + 1)..Len(sectors) : sectors[j].id # member_sector
        /\ \/ \E k \in 1..Len(sectors[i].keywords) :
                  \/ Contains(LowerText(sectors[i].keywords[k]), search_term)
                  \/ Contains(search_term, LowerText(sectors[i].keywords[k]))
           \/ Contains(LowerText(sectors[i].name), search_term)

\* " ".join(parts)
RECURSIVE join_spaced(_)
join_spaced(parts) ==
    IF parts = << >> THEN << >>
    ELSE IF Len(parts) = 1 THEN Head(parts)
    ELSE Head(parts) \o <<" ">> \o join_spaced(Tail(parts))

\* _keyword_score, times 0.3: the share of the keywords found in the member's
\* text (exact in hundredths while the number of keywords divides 30)
keyword_score(member, keywords) ==
    LET searchable ==
            LowerText(join_spaced(<<member.company_name, member.description,
                                    member.sector_label, join_spaced(member.services),
                                    member.location.city,
                                    member.location.department_name>>))
        hits == Cardinality({i \in 1..Len(keywords) :
                                Contains(searchable, LowerText(keywords[i]))})
    IN  (30 * hits) \div Len(keywords)

\* the sector test of _calculate_score, lines 104-118: "direct", "keywords",
\* "mismatch", or "unfiltered" when no sector is given
sector_test(sectors, member, sector) ==
    IF sector.none \/ sector.v = << >> THEN "unfiltered"
    ELSE IF LowerText(member.sector) = LowerText(sector.v) THEN "direct"
    ELSE IF sector_matches_keywords(sectors, LowerText(member.sector),
                                    LowerText(sector.v))
    THEN "keywords"
    ELSE "mismatch"

\* the place test of _calculate_score, lines 122-143
place_test(member, department, region) ==
    LET member_region == LowerText(member.location.region)
        region_lower ==
            IF LowerText(region.v) = <<"paca">>
            THEN <<"provence-alpes-cote d'azur">> ELSE LowerText(region.v)
    IN  IF ~department.none /\ department.v # ""
        THEN IF member.location.department = department.v
             THEN "department" ELSE "mismatch"
        ELSE IF ~region.none /\ region.v # << >>
        THEN IF \/ member_region = region_lower
                \/ Contains(member_region, region_lower)
                \/ Contains(region_lower, member_region)
             THEN "region" ELSE "mismatch"
        ELSE "unfiltered"

\* the rating floor of _calculate_score, lines 101-103
below_floor(member, min_rating) ==
    ~min_rating.none /\ min_rating.v # 0 /\ member.stats.rating < min_rating.v

\* _calculate_score
member_score(sectors, member, sector, department, region, keywords, min_rating) ==
    LET sector_is == sector_test(sectors, member, sector)
        place_is == place_test(member, department, region)
        sector_part ==
            CASE sector_is = "direct" -> 100
              [] sector_is = "keywords" -> 80
              [] OTHER -> 10
        place_part ==
            CASE place_is = "department" -> 50
              [] place_is = "region" -> 30
              [] OTHER -> 0
        keyword_part ==
            IF keywords.none \/ keywords.v = << >> THEN 0
            ELSE keyword_score(member, keywords.v)
        rating_bonus == member.stats.rating - 40
        program_bonus ==
            IF dict_get(member.qda_member, "program", None) \notin {None, ""} THEN 5 ELSE 0
        reviews == member.stats.reviews_count
        reviews_bonus == IF reviews < 10 THEN reviews ELSE 10
    IN  IF \/ below_floor(member, min_rating)
           \/ sector_is = "mismatch"
           \/ place_is = "mismatch"
        THEN 0
        ELSE sector_part + place_part + keyword_part + rating_bonus + program_bonus
             + reviews_bonus

\* sort(key=(_score, rating), reverse=True): stable, best first
RECURSIVE sort_members(_)
sort_members(items) ==
    LET before(x, y) ==
            \/ x._score > y._score
            \/ x._score = y._score /\ x.member.stats.rating >= y.member.stats.rating
    IN  IF items = << >> THEN << >>
        ELSE LET front == sort_members(SubSeq(items, 1, Len(items) - 1))
                 last == items[Len(items)]
             IN  SelectSeq(front, LAMBDA x : before(x, last)) \o <<last>>
                 \o SelectSeq(front, LAMBDA x : ~before(x, last))

\* mutant of search_members: members that score 0 are kept
search_members_keep_all(data, sector, department, region, keywords, min_rating, max_results) ==
    first_n(sort_members([i \in 1..Len(data.members) |->
                [member |-> data.members[i],
                 _score |-> member_score(data.sectors, data.members[i], sector,
                                         department, region, keywords, min_rating)]]),
            max_results)

\* search_members
search_members(data, sector, department, region, keywords, min_rating, max_results) ==
    LET scored == [i \in 1..Len(data.members) |->
                     [member |-> data.members[i],
                      _score |-> member_score(data.sectors, data.members[i], sector,
                                              department, region, keywords,
                                              min_rating)]]
    IN  first_n(sort_members(SelectSeq(scored, LAMBDA x : x._score > 0)), max_results)

\* the calls a member search can get
MemberCalls ==
    [op : {"called"}, fn : {"search_members"},
     data : {[members |-> first_n(Members, n), sectors |-> Sectors] : n \in 0..MaxMembers},
     sector : {Nothing, Just(<< >>), Just(<<"Digital">>), Just(<<"seo">>),
               Just(<<"catering">>)},
     department : {Nothing, Just(""), Just("93"), Just("13")},
     region : {Nothing, Just(<<"Ile-de-France">>), Just(<<"PACA">>)},
     keywords : {Nothing} \cup {Just(k) : k \in BoundedSeq({<<"web">>, <<"Paris">>},
                                                          MaxKeywords)},
     min_rating : {Nothing, Just(0), Just(45)},
     max_results : {1, default_max_results}]

InitMembers ==
    /\ ApiAtRest
    /\ ranker = Idle
    /\ discovery = Idle
    /\ router_engine = Idle
    /\ compiler = Idle
    /\ catalog \in MemberCalls

DoSearchMembers ==
    /\ catalog.op = "called" /\ catalog.fn = "search_members"
    /\ catalog' = Done(catalog,
           search_members(catalog.data, catalog.sector, catalog.department,
                          catalog.region, catalog.keywords, catalog.min_rating,
                          catalog.max_results))
    /\ UNCHANGED <<api_vars, ranker, discovery, router_engine, compiler>>

NextMembers == DoSearchMembers

SpecMembers == InitMembers /\ [][NextMembers]_vars

\* ------------------------------------------------------------ PromptCompiler
PromptSection(title, content) == [title |-> title, content |-> content]

\* the first key of a table, in its order, one of whose keywords is in the
\* text; None if there is none
first_match(table, text_lower) ==
    LET hit == SelectSeq(table, LAMBDA e :
                   \E k \in 1..Len(e.keywords) : Contains(text_lower, e.keywords[k]))
    IN  IF hit = << >> THEN Nothing ELSE Just(Head(hit).key)

\* _extract_sector_id
sector_map ==
    <<[key |-> <<"accounting">>, keywords |-> <<<<"accounting">>, <<"tax">>, <<"comptab">>>>],
      [key |-> <<"digital">>,
       keywords |-> <<<<"it">>, <<"digital">>, <<"informatique">>, <<"web">>>>],
      [key |-> <<"marketing">>,
       keywords |-> <<<<"marketing">>, <<"com", "mun", "ication">>, <<"com">>>>],
      [key |-> <<"legal">>, keywords |-> <<<<"legal">>, <<"juridique">>, <<"law">>>>],
      [key |-> <<"hr">>,
       keywords |-> <<<<"hr">>, <<"recru", "it", "ment">>, <<"recrutement">>, <<"rh">>>>],
      [key |-> <<"construction">>,
       keywords |-> <<<<"construction">>, <<"renovation">>, <<"btp">>, <<"travaux">>>>],
      [key |-> <<"transport">>,
       keywords |-> <<<<"transport">>, <<"logistics">>, <<"logistique">>>>],
      [key |-> <<"training">>,
       keywords |-> <<<<"training">>, <<"formation">>, <<"professional">>>>],
      [key |-> <<"cleaning">>,
       keywords |-> <<<<"cleaning">>, <<"nettoyage">>, <<"maintenance">>, <<"entretien">>>>],
      [key |-> <<"catering">>,
       keywords |-> <<<<"catering">>, <<"food">>, <<"restauration">>, <<"traiteur">>>>],
      [key |-> <<"telecom">>,
       keywords |-> <<<<"telecom">>, <<"phone">>, <<"com", "mun", "ication">>, <<"fiber">>>>]>>

extract_sector_id(sector_label) == first_match(sector_map, LowerText(sector_label))

\* _extract_department: a code in brackets, else the first department name
dept_names ==
    <<[key |-> "75", keywords |-> <<<<"paris">>>>],
      [key |-> "93", keywords |-> <<<<"seine-saint-denis">>>>],
      [key |-> "95", keywords |-> <<<<"val-d'oise">>>>],
      [key |-> "92", keywords |-> <<<<"hauts-de-seine">>>>],
      [key |-> "69", keywords |-> <<<<"rhone">>>>],
      [key |-> "13", keywords |-> <<<<"bouches-du-", "rhone">>>>],
      [key |-> "59", keywords |-> <<<<"nord">>>>],
      [key |-> "33", keywords |-> <<<<"gironde">>>>],
      [key |-> "31", keywords |-> <<<<"haute-garonne">>>>],
      [key |-> "67", keywords |-> <<<<"bas-rhin">>>>]>>

extract_department(location) ==
    IF Contains(location, <<"(93)">>) THEN Just("93")
    ELSE IF Contains(location, <<"(69)">>) THEN Just("69")
    ELSE first_match(dept_names, LowerText(location))

\* _extract_region
regions ==
    <<<<"Ile-de-France">>, <<"Auvergne-", "Rhone", "-Alpes">>, <<"PACA">>,
      <<"Hauts-de-France">>, <<"Occitanie">>, <<"Grand Est">>,
      <<"Nouvelle-Aquitaine">>, <<"Normandie">>, <<"Bretagne">>,
      <<"Pays de la Loire">>, <<"Centre-Val de Loire">>,
      <<"Bourgogne-Franche-Comte">>, <<"Corse">>, <<"DOM">>>>

extract_region(location) ==
    LET hit == SelectSeq(regions, LAMBDA r : Contains(LowerText(location), LowerText(r)))
    IN  IF hit = << >> THEN Nothing ELSE Just(Head(hit))

\* dict[key], for a dict kept as its items
item_value(selections, facet_id) ==
    LET at == SelectSeq(selections, LAMBDA it : it.facet_id = facet_id)
    IN  IF at = << >> THEN Absent ELSE Head(at).value

\* {selection.id: selection.value for selection in ...}: a key keeps its first
\* place and its last value
RECURSIVE to_dict(_)
to_dict(items) ==
    IF items = << >> THEN << >>
    ELSE LET front == to_dict(SubSeq(items, 1, Len(items) - 1))
             last == items[Len(items)]
         IN  IF item_value(front, last.facet_id) = Absent THEN Append(front, last)
             ELSE [i \in 1..Len(front) |->
                     IF front[i].facet_id = last.facet_id THEN last ELSE front[i]]

NoFile == [exists |-> FALSE]
File(data) == [exists |-> TRUE, data |-> data]

Returned(sections) == [raised |-> FALSE, sections |-> sections]

\* mutant of special_instructions: the section is titled Instructions
special_instructions_retitled(content) == PromptSection("Instructions", content)

\* lines 194-196 and 245-247
special_instructions(content) == PromptSection("Special Instructions", content)

\* format_services_for_prompt reads these keys of each service it lists
formats(service) == {"name", "provider", "description"} \subseteq DOMAIN service

\* _add_catalog_results
add_catalog_results(env, sections, selections) ==
    LET filtered_services == filter_services(env.services.data, selections, 8)
        listed == first_n(filtered_services, 6)
    IN  IF ~env.services.exists \/ filtered_services = << >> THEN Returned(sections)
        ELSE IF \E i \in 1..Len(listed) : ~formats(listed[i].service)
        THEN Raised("KeyError")
        ELSE Returned(sections
                 \o <<PromptSection("Recommended Services (Quartiers d'Affaires Catalog)",
                                    listed),
                      special_instructions(<<"catalog_instructions">>)>>)

\* lines 208-222: the members found for the selections
members_for(env, selections) ==
    LET value_of(facet_id) ==
            LET v == item_value(selections, facet_id)
            IN  IF v.t = "str" THEN v.v ELSE << >>
        sector_label == value_of("service_sector")
        location == value_of("location")
    IN  search_members(env.members.data,
            IF sector_label # << >> THEN extract_sector_id(sector_label) ELSE Nothing,
            IF location # << >> THEN extract_department(location) ELSE Nothing,
            IF location # << >> THEN extract_region(location) ELSE Nothing,
            Nothing, Nothing, 6)

\* _add_member_results
add_member_results(env, sections, selections) ==
    IF ~env.members.exists THEN Returned(sections)
    ELSE LET members == members_for(env, selections)
         IN  IF members # << >>
             THEN Returned(sections
                      \o <<PromptSection("QDA Member Businesses Matching Your Search",
                                         first_n(members, 5)),
                           special_instructions(<<"member_instructions">>)>>)
             ELSE Returned(Append(sections,
                               PromptSection("Search Results", <<"no members found">>)))

\* lines 119-132: one line per selection, then one per default that applies
selection_lines(selections, proceed_defaults) ==
    LET applied == SelectSeq(proceed_defaults,
                       LAMBDA d : item_value(selections, d.facet_id) = Absent)
    IN  [i \in 1..Len(selections) |->
            [facet_id |-> selections[i].facet_id,
             value |-> IF selections[i].value = JNull THEN JStr(<<"unspecified">>)
                       ELSE selections[i].value,
             default |-> FALSE]]
        \o [i \in 1..Len(applied) |->
            [facet_id |-> applied[i].facet_id, value |-> applied[i].value,
             default |-> TRUE]]

default_instructions == <<"Answer clearly and concisely.">>

NoOverrides == [none |-> TRUE]
Overrides(d) == [none |-> FALSE, dict |-> d]

\* lines 152-155
instructions_of(user_overrides) ==
    IF user_overrides.none THEN default_instructions
    ELSE LET override == dict_get(user_overrides.dict, "instructions", JNull)
         IN  IF user_overrides.dict # EmptyDict /\ JTruthy(override)
             THEN IF override.t = "str" THEN Strip(override.v) ELSE <<Str(override)>>
             ELSE default_instructions

\* compile
compile(env, raw_query, selections, user_overrides, proceed_defaults, domain_pack) ==
    LET lines == selection_lines(selections, proceed_defaults)
        sections == <<PromptSection("User Query", Strip(raw_query)),
                      PromptSection("Selected Facets",
                                    IF lines # << >> THEN lines ELSE <<"None">>)>>
        chosen == item_value(selections, "search_type")
        search_type == LowerText(Get(chosen, JStr(<<"Programs & Funding">>)).v)
        with_results ==
            IF domain_pack # "qda_griffons" THEN Returned(sections)
            ELSE IF chosen = JNull THEN Raised("AttributeError")
            ELSE IF \/ Contains(search_type, <<"service provider">>)
                    \/ Contains(search_type, <<"member">>)
            THEN add_member_results(env, sections, selections)
            ELSE add_catalog_results(env, sections, selections)
    IN  IF with_results.raised THEN with_results
        ELSE Returned(Append(with_results.sections,
                 PromptSection("Instructions", instructions_of(user_overrides))))

\* answer, lines 166-177: the selections and the pack's defaults go to compile;
\* domain_pack is not passed and keeps its default
answer_compile(env, request, payload, pack) ==
    compile(env, request.raw_query, to_dict(payload.facet_selections),
            IF payload.user_overrides.none \/ payload.user_overrides.dict = EmptyDict
            THEN Overrides(EmptyDict) ELSE payload.user_overrides,
            to_dict([i \in 1..Len(pack.facets) |->
                Item(pack.facets[i].id,
                     dict_get(pack.facets[i], "default_value", JStr(<<"unspecified">>)))]),
            None)

\* the files the compiler can find next to the catalog package
ServiceFiles == {NoFile} \cup {File(c) : c \in Catalogs}
MemberFiles == {NoFile, File([members |-> Members, sectors |-> Sectors])}
Envs == [services : ServiceFiles, members : MemberFiles]

\* the values a selection of each facet the compiler reads can have
CompileSelections ==
    {selections_of(choice) :
        choice \in [search_type : {Absent, JNull, JStr(<<"Programs & Funding">>),
                                   JStr(<<"Find a ", "Service Provider">>),
                                   JStr(<<"QDA ", "Member", "s">>)},
                    service_sector : {Absent, JNull, JStr(<<"IT", " & ", "Digital">>),
                                      JStr(<<"HR", " & ", "Recru", "it", "ment">>),
                                      JStr(<<"Catering">>)},
                    location : {Absent, JNull, JStr(<<"Paris", " ", "(93)">>)}]}

CompileOverrides ==
    {NoOverrides, Overrides(EmptyDict), Overrides([tone |-> JStr(<<"formal">>)]),
     Overrides([instructions |-> JStr(<< >>)]),
     Overrides([instructions |-> JStr(<<" ">>)]),
     Overrides([instructions |-> JStr(<<"Be brief.">>)]),
     Overrides([instructions |-> JStr(<<" ", "Be brief.", " ">>)])}

CompileQueries == {<<"find", " ", "funding">>, <<" ", "find", " ", "funding", " ">>}

PackFacets ==
    {<< >>,
     <<[id |-> "search_type", default_value |-> JStr(<<"Programs & Funding">>)],
       [id |-> "tone"]>>}

CompileCalls ==
    [op : {"called"}, fn : {"compile"}, env : Envs, raw_query : CompileQueries,
     selections : CompileSelections, user_overrides : CompileOverrides,
     proceed_defaults : {<< >>, <<Item("tone", JStr(<<"unspecified">>))>>},
     domain_pack : {None, "qda_griffons", "universal"}]
    \cup [op : {"called"}, fn : {"answer"}, env : Envs,
          request : [raw_query : CompileQueries, domain_pack : {"qda_griffons", "universal"}],
          payload : [facet_selections : CompileSelections,
                     user_overrides : CompileOverrides],
          pack : [facets : PackFacets]]

InitCompile ==
    /\ ApiAtRest
    /\ ranker = Idle
    /\ discovery = Idle
    /\ router_engine = Idle
    /\ compiler \in CompileCalls
    /\ catalog = Idle

DoCompile ==
    /\ compiler.op = "called" /\ compiler.fn = "compile"
    /\ compiler' = Done(compiler,
           compile(compiler.env, compiler.raw_query, compiler.selections,
                   compiler.user_overrides, compiler.proceed_defaults,
                   compiler.domain_pack))
    /\ UNCHANGED <<api_vars, ranker, discovery, router_engine, catalog>>

DoAnswerCompile ==
    /\ compiler.op = "called" /\ compiler.fn = "answer"
    /\ compiler' = Done(compiler,
           answer_compile(compiler.env, compiler.request, compiler.payload,
                          compiler.pack))
    /\ UNCHANGED <<api_vars, ranker, discovery, router_engine, catalog>>

NextCompile == DoCompile \/ DoAnswerCompile

SpecCompile == InitCompile /\ [][NextCompile]_vars

\* ------------------------------------------------------------ properties
StageIndex(t) == CHOOSE i \in 1..Len(StageOrder) : StageOrder[i] = t

IsPrefix(s, t) == Len(s) <= Len(t) /\ SubSeq(t, 1, Len(s)) = s

\* the rows call c has inserted, in id order, as list_events shows them
rows_by_call(c) ==
    LET rows == SortById({e \in events : e.call = c})
    IN  [i \in 1..Len(rows) |->
            [event_type |-> rows[i].event_type, data |-> rows[i].data,
             timestamp |-> rows[i].created_at]]

\* the rows of call c among those list_events reads for c's request
listed_by_call(c) ==
    LET rows == SelectSeq(rows_of(events, call[c].request_id),
                          LAMBDA e : e.call = c)
    IN  [i \in 1..Len(rows) |->
            [event_type |-> rows[i].event_type, data |-> rows[i].data,
             timestamp |-> rows[i].created_at]]

\* calls c and d have rows interleaved in the trace of one request
Interleaved(c, d) ==
    \E a, b, x \in events :
        /\ a.call = c /\ b.call = c /\ x.call = d
        /\ a.request_id = x.request_id /\ b.request_id = x.request_id
        /\ a.id < x.id /\ x.id < b.id

\* C1: after any sequence of discover, refine and answer calls (taken here
\* one call after the other, none overlapping), in every request's trace no
\* event of an earlier stage follows an event of a later stage
\* (DETECT_DOMAIN < SUGGEST_FACETS < USER_SELECT < COMPILE_PROMPT <
\* MODEL_RESPONSE).
StageOrderRespected ==
    ~overlapped =>
    \A r \in RequestIds :
        LET ev == list_events(r)
        IN  \A i, j \in 1..Len(ev) :
                i < j => StageIndex(ev[i].event_type) <= StageIndex(ev[j].event_type)

\* C2: ANSWERED is terminal: a refine or answer call that begins after a
\* MODEL_RESPONSE event was stored for its request appends nothing (calls
\* taken one after the other).
AnsweredIsTerminal ==
    ~overlapped =>
    \A e \in events :
        call[e.call].op \in {"refine", "answer"} =>
            ~\E m \in events :
                /\ m.request_id = e.request_id
                /\ m.event_type = "MODEL_RESPONSE"
                /\ m.id < call[e.call].began

\* refine rounds the cap allows: rounds 2..max_refine_rounds (round 1 is the
\* one discover records)
AllowedRefineRounds == max_refine_rounds - 1

\* C3: for every request, the refine calls that appended a SUGGEST_FACETS
\* event are no more than the refine rounds max_refine_rounds allows (calls
\* taken one after the other).
RefineRoundsBounded ==
    ~overlapped =>
    \A r \in RequestIds :
        Cardinality({e \in events : /\ e.request_id = r
                                    /\ e.event_type = "SUGGEST_FACETS"
                                    /\ call[e.call].op = "refine"})
            <= AllowedRefineRounds

\* C4: the trace is append-only: in every step, for every request, what
\* list_events returned before the step is a prefix of what it returns after.
TraceAppendOnly ==
    [][\A r \in RequestIds : IsPrefix(list_events_in(events, r), list_events_in(events', r))]_vars

\* two calls in flight have appended to one request in alternation
TraceGrewInterleaved ==
    \E c, d \in Calls : c # d /\ Interleaved(c, d)

\* C5: for every request the timestamps of list_events are non-decreasing.
TimestampsMonotone ==
    \A r \in RequestIds :
        LET ev == list_events(r)
        IN  \A i, j \in 1..Len(ev) : i < j => ev[i].timestamp <= ev[j].timestamp

\* C6: no lost updates: the trace of a call's request holds exactly the events
\* ledger.append returned to that call, in the order they were appended, and
\* every stored row is one of them.
NoLostUpdates ==
    /\ \A c \in Calls : listed_by_call(c) = returned[c]
    /\ \A c \in Calls : rows_by_call(c) = returned[c]
    /\ \A e \in events : e.call \in Calls /\ e.request_id = call[e.call].request_id

\* two calls have completed after appending to one request in alternation
ConcurrentAppendsCompleted ==
    \E c, d \in Calls :
        /\ c # d /\ pc[c] = "done" /\ pc[d] = "done"
        /\ Interleaved(c, d)
        /\ Len(returned[c]) >= 2 /\ Len(returned[d]) >= 1

\* C7: a request row is created only by discover and never changes: in every
\* step a stored row stays as it is, and a row that appears belongs to a
\* discover call that took its first step.
RequestImmutable ==
    [][\A r \in RequestIds :
          /\ request_exists(requests, r) =>
                get_request(requests', r) = get_request(requests, r)
          /\ (~request_exists(requests, r) /\ request_exists(requests', r)) =>
                \E c \in Calls : /\ pc[c] = "idle"
                                  /\ call'[c].op = "discover"
                                  /\ call'[c].request_id = r]_vars

\* a request has been refined and answered, and a later discover has drawn
\* its id again
RequestUsedAfterCreation ==
    \E r \in RequestIds, c, d \in Calls :
        /\ request_exists(requests, r)
        /\ call[c].op = "refine" /\ call[c].request_id = r /\ returned[c] # << >>
        /\ call[d].op = "answer" /\ call[d].request_id = r /\ returned[d] # << >>

\* C8: a refine or answer call whose request id has no row fails with 404 in
\* its first step and leaves both tables unchanged.
UnknownRequestNotFound ==
    [][\A c \in Calls :
          (/\ pc[c] = "idle" /\ pc'[c] # "idle"
           /\ call'[c].op \in {"refine", "answer"}
           /\ ~request_exists(requests, call'[c].request_id))
          => (/\ pc'[c] = "done"
              /\ resp'[c] = [status |-> 404]
              /\ requests' = requests
              /\ events' = events)]_vars

\* a call got 404 while the store held another request and its events
NotFoundReturned ==
    \E c \in Calls :
        /\ resp[c] = [status |-> 404]
        /\ call[c].op \in {"refine", "answer"}
        /\ events # {}
        /\ returned[c] = << >>

\* C9: a refine call on a known request with refine_round above
\* max_refine_rounds responds, without error, with no facet and exactly one
\* reason, and appends no event.
RoundLimitResponse ==
    [][\A c \in Calls :
          (/\ pc[c] = "idle" /\ pc'[c] # "idle"
           /\ call'[c].op = "refine"
           /\ request_exists(requests, call'[c].request_id)
           /\ call'[c].refine_round > max_refine_rounds)
          => (/\ pc'[c] = "done"
              /\ resp'[c].status = 200
              /\ resp'[c].facet_candidates = << >>
              /\ Len(resp'[c].why_these_facets) = 1
              /\ events' = events
              /\ requests' = requests)]_vars

\* a refine call above the cap has returned on a request that has a trace
RoundLimitReturned ==
    \E c \in Calls :
        /\ call[c].op = "refine"
        /\ call[c].refine_round > max_refine_rounds
        /\ pc[c] = "done"
        /\ resp[c].status = 200
        /\ returned[c] = << >>
        /\ list_events(call[c].request_id) # << >>

\* how often x occurs in s
Count(s, x) == Cardinality({i \in 1..Len(s) : s[i] = x})

IsPermutation(s, t) ==
    /\ Len(s) = Len(t)
    /\ \A x \in Range(s) \cup Range(t) : Count(s, x) = Count(t, x)

\* C10: the output of rank and of rank_with_llm is a permutation of the input
\* candidate list, whatever the candidates' ids and the model's reply.
RankingIsPermutation ==
    ranker.op \in {"rank", "rank_with_llm"} =>
        IsPermutation(ranker.out, ranker.candidates)

\* the same for the deterministic ranker alone
RankIsPermutation ==
    ranker.op = "rank" => IsPermutation(ranker.out, ranker.candidates)

\* the candidates of s whose score is k, in the order s has them
WithScore(query, s, k) == SelectSeq(s, LAMBDA c : score(query, c) = k)

\* C11: rank orders the candidates by (keyword hits in the lowercased query,
\* 1 if the facet has a default value else 0), highest pair first; candidates
\* with equal pairs keep their input order; rank applied to a ranked list
\* returns it unchanged.
RankSortedStable ==
    [][(ranker'.op = "rank") =>
          LET q == ranker'.query
              in == ranker'.candidates
              out == ranker'.out
          IN  /\ Len(out) = Len(in)
              /\ \A i, j \in 1..Len(out) :
                    i < j => ~KeyGreater(score(q, out[j]), score(q, out[i]))
              /\ \A c \in Range(in) \cup Range(out) :
                    WithScore(q, out, score(q, c)) = WithScore(q, in, score(q, c))
              /\ (ranker.op = "rank" => out = ranker.out)]_vars

\* rank has moved a candidate ahead of one with a lower pair, kept two
\* different candidates with equal pairs in input order, and has been run
\* again on its own result
RankedTwice ==
    /\ ranker.op = "rank"
    /\ ranker.out = ranker.candidates
    /\ \E i, j \in 1..Len(ranker.out) :
          /\ i < j /\ ranker.out[i] # ranker.out[j]
          /\ score(ranker.query, ranker.out[i]) = score(ranker.query, ranker.out[j])
    /\ \E i \in 1..Len(ranker.out) :
          KeyGreater(score(ranker.query, ranker.out[1]), score(ranker.query, ranker.out[i]))

IsSentinel(v) == Lower(v) = AllOptions

SentinelCount(vals) == Cardinality({i \in 1..Len(vals) : IsSentinel(vals[i])})

\* exactly one sentinel, and it is the last element
OneSentinelLast(vals) ==
    /\ vals # << >>
    /\ SentinelCount(vals) = 1
    /\ IsSentinel(vals[Len(vals)])

\* the values of the definition's concrete choices, as _to_facet reads them
ConcreteValues(data) ==
    LET items == IF data.choices.t = "list" THEN data.choices.v ELSE << >>
        concrete == SelectSeq(items, IsConcrete)
    IN  [i \in 1..Len(concrete) |-> Str(concrete[i].v.value)]

\* the definition's fields have the types of the data model: strings for id,
\* title, choice values and suggested values, lists for the rest
WellTyped(data) ==
    /\ data.id.t \in {"absent", "str"}
    /\ data.title.t \in {"absent", "str"}
    /\ data.choices.t \in {"absent", "list"}
    /\ data.choices.t = "list" =>
          \A i \in 1..Len(data.choices.v) :
              data.choices.v[i].t = "dict" =>
                  /\ data.choices.v[i].v.value.t \in {"absent", "str"}
                  /\ data.choices.v[i].v.subchoices.t \in {"absent", "list"}
    /\ data.suggested_values.t \in {"absent", "list"}
    /\ data.suggested_values.t = "list" =>
          \A i \in 1..Len(data.suggested_values.v) :
              data.suggested_values.v[i].t = "str"

ChoiceValuesOf(facet) == [i \in 1..Len(facet.choices) |-> facet.choices[i].value]

SuggestedOf(facet) ==
    [i \in 1..Len(facet.suggested_values) |-> facet.suggested_values[i].v]

\* C12 as stated: for every facet definition with at least one concrete
\* choice, the Facet's choices and its suggested_values each contain exactly
\* one entry equal to "all options" case-insensitively, and it is the last
\* element, whatever the definition supplied.
SentinelExactlyOnceLast ==
    (/\ discovery.op = "done" /\ discovery.in.fn = "_to_facet"
     /\ WellTyped(discovery.in.data)
     /\ ConcreteValues(discovery.in.data) # << >>)
    => /\ ~discovery.out.raised
       /\ OneSentinelLast(ChoiceValuesOf(discovery.out))
       /\ OneSentinelLast(SuggestedOf(discovery.out))

\* C12 amended: for every well-typed facet definition with at least one
\* concrete choice, _to_facet returns a Facet whose choices and
\* suggested_values each contain an "all options" entry (case-insensitive);
\* a list the definition supplied without one gets exactly one, appended
\* last; a list supplied with one is left as supplied.  The list supplied for
\* suggested_values is the definition's suggested_values or, when those are
\* absent or empty, the Facet's choice values.
SentinelAppendedIfMissing ==
    (/\ discovery.op = "done" /\ discovery.in.fn = "_to_facet"
     /\ WellTyped(discovery.in.data)
     /\ ConcreteValues(discovery.in.data) # << >>)
    => /\ ~discovery.out.raised
       /\ LET given == ConcreteValues(discovery.in.data)
              choices == ChoiceValuesOf(discovery.out)
              sv == discovery.in.data.suggested_values
              supplied == IF sv.t = "list" /\ sv.v # << >>
                          THEN [i \in 1..Len(sv.v) |-> sv.v[i].v]
                          ELSE choices
              suggested == SuggestedOf(discovery.out)
          IN  /\ SentinelCount(choices) >= 1
              /\ SentinelCount(suggested) >= 1
              /\ IF SentinelCount(given) = 0
                 THEN choices = Append(given, AllOptions) /\ OneSentinelLast(choices)
                 ELSE choices = given
              /\ IF SentinelCount(supplied) = 0
                 THEN /\ suggested = Append(supplied, AllOptions)
                      /\ OneSentinelLast(suggested)
                 ELSE suggested = supplied

\* _to_facet has materialized a definition that lists the sentinel itself,
\* ahead of a concrete choice, and one whose suggested values got it appended
SentinelSuppliedFirst ==
    /\ discovery.op = "done" /\ discovery.in.fn = "_to_facet"
    /\ WellTyped(discovery.in.data)
    /\ ~discovery.out.raised
    /\ Len(discovery.out.choices) = 2
    /\ IsSentinel(discovery.out.choices[1].value)
    /\ ~IsSentinel(discovery.out.choices[2].value)
    /\ Len(discovery.out.suggested_values) = 2
    /\ ~IsSentinel(discovery.out.suggested_values[1].v)
    /\ IsSentinel(discovery.out.suggested_values[2].v)

\* C13: model-assisted discovery (rounds 1 and 2) never raises on malformed
\* model output: whatever the reply text and the shapes of the facet objects
\* in it, the call returns a (possibly empty) candidate list.
DiscoveryNeverRaises ==
    (/\ discovery.op = "done"
     /\ discovery.in.fn \in {"discover_round1_llm", "discover_round2_llm"})
    => ~discovery.out.raised

\* the facet ids of a handler's response
ResponseIds(response) ==
    [i \in 1..Len(response.facet_candidates) |-> response.facet_candidates[i].id]

NoDuplicates(ids) == \A i, j \in 1..Len(ids) : ids[i] = ids[j] => i = j

\* C14: facet ids are unique within a response: no two facet candidates of a
\* discover or refine response have the same id, for every pack and every
\* model reply.
FacetIdsUnique ==
    /\ (/\ discovery.op = "done" /\ discovery.in.fn = "discover"
        /\ discovery.out.status = 200)
       => NoDuplicates(ResponseIds(discovery.out))
    /\ (/\ discovery.op = "done" /\ discovery.in.fn = "refine"
        /\ discovery.out.resp.status = 200)
       => NoDuplicates(ResponseIds(discovery.out.resp))

\* C15: when refine is called in model-assisted mode with a non-empty
\* exclude_facet_ids list, the round-2 discovery call receives that exclusion
\* set and the instruction payload tells the model not to suggest those ids.
ExclusionsReachModel ==
    (/\ discovery.op = "done" /\ discovery.in.fn = "refine"
     /\ discovery.out.called = "discover_round2_llm"
     /\ discovery.in.payload.exclude_facet_ids # {})
    => /\ discovery.out.exclude_ids =
              [none |-> FALSE, ids |-> discovery.in.payload.exclude_facet_ids]
       /\ discovery.out.instructed = discovery.in.payload.exclude_facet_ids

\* a non-universal pack of the directory has a searchable term in lowercased Q
SomeTermInQuery(dir, raw_query) ==
    \E pack \in dir :
        /\ pack.name # Universal
        /\ \E i \in 1..Len(pack_terms(pack)) :
              Contains(LowerText(raw_query), pack_terms(pack)[i])

\* the packs of the directory a given, non-empty hint matches: trimmed and
\* lowercased it equals, is part of or contains the pack's name, or is part
\* of one of the pack's keywords
HintMatched(dir, domain_hint) ==
    IF domain_hint.given /\ domain_hint.text # << >>
    THEN {pack \in dir : hint_accepts(LowerText(Strip(domain_hint.text)), pack)}
    ELSE {}

NameIndex(name) == CHOOSE i \in 1..Len(SortedNames) : SortedNames[i] = name

\* C16 as stated: choose_pack returns "universal" if and only if no
\* non-universal pack has a searchable term that is a substring of lowercased
\* Q and no domain_hint matches a pack (read in the claim's favour: a pack
\* other than the universal one).
UniversalIffNothingMatches ==
    router_engine.op = "done" =>
        ((router_engine.out = Universal)
         <=> (/\ ~SomeTermInQuery(router_engine.in.dir, router_engine.in.raw_query)
              /\ \A pack \in HintMatched(router_engine.in.dir,
                                         router_engine.in.domain_hint) :
                    pack.name = Universal))

\* C16 amended: choose_pack returns "universal" if and only if either the
\* first pack in sorted name order that the hint matches is the universal
\* pack, or the hint matches no pack (or is absent or empty) and no
\* non-universal pack has a searchable term that is a substring of
\* lowercased Q.
UniversalIffFirstMatchOrNoTerm ==
    router_engine.op = "done" =>
        LET matched == HintMatched(router_engine.in.dir, router_engine.in.domain_hint)
        IN  (router_engine.out = Universal)
            <=> \/ /\ \E pack \in matched : pack.name = Universal
                   /\ \A pack \in matched : NameIndex(Universal) <= NameIndex(pack.name)
                \/ /\ matched = {}
                   /\ ~SomeTermInQuery(router_engine.in.dir, router_engine.in.raw_query)

\* a hint that names the universal pack has won over a query that holds
\* terms of another pack
HintChoseUniversal ==
    /\ router_engine.op = "done"
    /\ router_engine.out = Universal
    /\ SomeTermInQuery(router_engine.in.dir, router_engine.in.raw_query)
    /\ \E pack \in HintMatched(router_engine.in.dir, router_engine.in.domain_hint) :
          pack.name = Universal

\* C20: _calculate_match_score returns a score s with 0 <= s <= 1 (0..100 in
\* hundredths) for every service and every parsed selection profile, and every
\* service filter_services returns carries a _score with 0 < _score <= 1.
ScoreWithinUnitInterval ==
    catalog.op = "done" =>
        IF catalog.in.fn = "_calculate_match_score"
        THEN 0 <= catalog.out /\ catalog.out <= 100
        ELSE \A i \in 1..Len(catalog.out) :
                 0 < catalog.out[i]._score /\ catalog.out[i]._score <= 100

\* filter_services returned a service whose sum of bonuses is above 1 and
\* whose _score is 1, and the catalog also holds a service that scored less
ScoreCapped ==
    /\ catalog.op = "done" /\ catalog.in.fn = "filter_services"
    /\ Len(catalog.out) > 1
    /\ catalog.out[1]._score = 100
    /\ match_score_sum(catalog.out[1].service,
                       parse_selections(catalog.in.selections)) > 100
    /\ catalog.out[Len(catalog.out)]._score < 10

Titles(sections) == [i \in 1..Len(sections) |-> sections[i].title]

\* the matcher the selections choose has at least one result to list
MatcherFinds(env, selections) ==
    LET chosen == item_value(selections, "search_type")
        search_type == LowerText(Get(chosen, JStr(<<"Programs & Funding">>)).v)
    IN  /\ chosen # JNull
        /\ IF \/ Contains(search_type, <<"service provider">>)
              \/ Contains(search_type, <<"member">>)
           THEN env.members.exists /\ members_for(env, selections) # << >>
           ELSE /\ env.services.exists
                /\ filter_services(env.services.data, selections, 8) # << >>
                /\ \A i \in 1..Len(env.services.data) : formats(env.services.data[i])

RankedResultsTitles ==
    {"Recommended Services (Quartiers d'Affaires Catalog)",
     "QDA Member Businesses Matching Your Search"}

\* C17: in an answer call for a request whose stored domain_pack is the pack
\* with the catalog and member search, when the matcher has a result, the
\* compiled prompt holds a ranked-results section immediately followed by
\* Special Instructions, after Selected Facets and before Instructions.
AnswerInjectsRankedResults ==
    (/\ compiler.op = "done" /\ compiler.in.fn = "answer"
     /\ compiler.in.request.domain_pack = "qda_griffons"
     /\ MatcherFinds(compiler.in.env, to_dict(compiler.in.payload.facet_selections)))
    => /\ ~compiler.out.raised
       /\ LET titles == Titles(compiler.out.sections)
          IN  \E i \in 3..(Len(titles) - 2) :
                  /\ titles[i] \in RankedResultsTitles
                  /\ titles[i + 1] = "Special Instructions"
                  /\ titles[2] = "Selected Facets"
                  /\ titles[Len(titles)] = "Instructions"

\* C18: whatever compile is given, the section list it returns starts with
\* User Query, then Selected Facets, ends with Instructions, and no two of its
\* sections share a title.
CompileSectionOrder ==
    (compiler.op = "done" /\ ~compiler.out.raised)
    => LET titles == Titles(compiler.out.sections)
       IN  /\ Len(titles) >= 3
           /\ titles[1] = "User Query"
           /\ titles[2] = "Selected Facets"
           /\ titles[Len(titles)] = "Instructions"
           /\ \A i, j \in 1..Len(titles) : titles[i] = titles[j] => i = j

\* compile was called with the pack and a member search type, members were
\* found, and the list it returned has the two sections of the member branch
CompiledMemberResults ==
    /\ compiler.op = "done" /\ compiler.in.fn = "compile"
    /\ compiler.in.domain_pack = "qda_griffons"
    /\ ~compiler.out.raised
    /\ Titles(compiler.out.sections) =
           <<"User Query", "Selected Facets",
             "QDA Member Businesses Matching Your Search", "Special Instructions",
             "Instructions">>

\* C19: the content of the Instructions section is the string given as
\* user_overrides["instructions"] when that string is present and not empty,
\* and the default instruction string in every other case.
InstructionsOverrideOrDefault ==
    (compiler.op = "done" /\ compiler.in.fn = "compile" /\ ~compiler.out.raised)
    => LET sections == compiler.out.sections
           content == sections[Len(sections)].content
           given == compiler.in.user_overrides
           override == IF given.none THEN JNull
                       ELSE dict_get(given.dict, "instructions", JNull)
       IN  IF override.t = "str" /\ override.v # << >>
           THEN content = override.v
           ELSE content = default_instructions

\* the part of a service's sum that the selections bring
selection_terms(service, parsed) ==
    match_score_sum(service, parsed) - 10 - free_bonus(service)
    - (IF dict_get(service, "provider", None) = "Quartiers d'Affaires" THEN 10 ELSE 0)

\* a score call on a service with an empty eligibility block to whose sum the
\* selections bring nothing
EmptyEligibilityNoMatch ==
    /\ catalog.op = "done" /\ catalog.in.fn = "_calculate_match_score"
    /\ dict_get(catalog.in.service, "eligibility", EmptyDict) = EmptyDict
    /\ selection_terms(catalog.in.service, parse_selections(catalog.in.selections)) = 0

\* C21: a service with an empty eligibility block, scored against selections
\* none of which match it, scores exactly the 0.1 base (10 hundredths),
\* whatever its price, provider, category and tags.
EmptyEligibilityScoresBase == EmptyEligibilityNoMatch => catalog.out = 10

\* C21, amended: such a service scores the 0.1 base, plus 0.05 when its price
\* is 0 or absent, plus 0.1 when its provider is Quartiers d'Affaires.
EmptyEligibilityScoresBasePlusBonuses ==
    EmptyEligibilityNoMatch
    => catalog.out
       = 10
         + (IF "price" \notin DOMAIN catalog.in.service \/ catalog.in.service.price = 0
            THEN 5 ELSE 0)
         + (IF "provider" \in DOMAIN catalog.in.service
               /\ catalog.in.service.provider = "Quartiers d'Affaires"
            THEN 10 ELSE 0)

\* a service with no price and no eligibility block was scored against the
\* empty selections and got 0.15
UnpricedServiceScored ==
    /\ EmptyEligibilityNoMatch
    /\ "price" \notin DOMAIN catalog.in.service
    /\ catalog.in.selections = << >>
    /\ catalog.out = 15

SearchDone == catalog.op = "done" /\ catalog.in.fn = "search_members"

\* a sector filter is given, and it is no member's sector and matches no
\* member's sector through the keyword table
SectorMatchesNobody ==
    /\ ~catalog.in.sector.none /\ catalog.in.sector.v # << >>
    /\ \A i \in 1..Len(catalog.in.data.members) :
          LET member_sector == LowerText(catalog.in.data.members[i].sector)
              term == LowerText(catalog.in.sector.v)
          IN  /\ member_sector # term
              /\ ~sector_matches_keywords(catalog.in.data.sectors, member_sector, term)

\* C22: search_members returns the empty list whenever the sector filter it is
\* given equals no member's sector and matches none through the sector-keyword
\* table, whatever the department, region, keyword and rating filters, the
\* ratings and the review counts are.
SectorMismatchGivesNothing == (SearchDone /\ SectorMatchesNobody) => catalog.out = << >>

\* a search whose sector matches nobody returned nothing although a member is
\* in the department asked for and has the keyword
SectorMismatchOverridesOtherFilters ==
    /\ SearchDone /\ SectorMatchesNobody
    /\ catalog.out = << >>
    /\ ~catalog.in.department.none /\ ~catalog.in.keywords.none
    /\ \E i \in 1..Len(catalog.in.data.members) :
          /\ catalog.in.data.members[i].location.department = catalog.in.department.v
          /\ catalog.in.keywords.v # << >>
          /\ keyword_score(catalog.in.data.members[i], catalog.in.keywords.v) > 0

\* C30: a member that fails none of the filters given to search_members (rating
\* floor, sector, department, region when no department is given) has a score
\* above 0 and is in the result before it is cut to max_results, whatever its
\* rating and review count.
PassingMemberIsListed ==
    (SearchDone /\ catalog.in.max_results >= Len(catalog.in.data.members))
    => \A i \in 1..Len(catalog.in.data.members) :
          LET member == catalog.in.data.members[i]
          IN  (/\ ~below_floor(member, catalog.in.min_rating)
               /\ sector_test(catalog.in.data.sectors, member, catalog.in.sector)
                      # "mismatch"
               /\ place_test(member, catalog.in.department, catalog.in.region)
                      # "mismatch")
              => /\ member_score(catalog.in.data.sectors, member, catalog.in.sector,
                                 catalog.in.department, catalog.in.region,
                                 catalog.in.keywords, catalog.in.min_rating) > 0
                 /\ \E k \in 1..Len(catalog.out) : catalog.out[k].member = member

\* the score choose_pack gives a pack of the directory for the query
ScoreOf(dir, name, raw_query) == term_score(load_pack(dir, name), LowerText(raw_query))

\* the packs of the directory that are scored, by name
ScoredNames(dir) == {pack.name : pack \in {q \in dir : q.name # Universal}}

\* C23: when no domain hint matches, choose_pack returns the non-universal
\* pack with the highest term-overlap score, the first in sorted name order
\* among those tied for the highest positive score, and "universal" when no
\* pack scores above 0; the universal pack's own terms are never scored.
BestScoringPackWins ==
    (/\ router_engine.op = "done"
     /\ HintMatched(router_engine.in.dir, router_engine.in.domain_hint) = {})
    => LET dir == router_engine.in.dir
           query == router_engine.in.raw_query
           top == {n \in ScoredNames(dir) :
                      /\ ScoreOf(dir, n, query) > 0
                      /\ \A m \in ScoredNames(dir) :
                            ScoreOf(dir, m, query) <= ScoreOf(dir, n, query)}
       IN  IF top = {} THEN router_engine.out = Universal
           ELSE /\ router_engine.out \in top
                /\ \A n \in top : NameIndex(router_engine.out) <= NameIndex(n)

\* no hint matched, two packs tied for the highest score, the universal pack
\* has more of its terms in the query than either, and the first of the two
\* was returned
TieWentToFirstPack ==
    /\ router_engine.op = "done"
    /\ HintMatched(router_engine.in.dir, router_engine.in.domain_hint) = {}
    /\ router_engine.out # Universal
    /\ \E universal \in router_engine.in.dir :
          /\ universal.name = Universal
          /\ term_score(universal, LowerText(router_engine.in.raw_query))
             > ScoreOf(router_engine.in.dir, router_engine.out, router_engine.in.raw_query)
    /\ \E n \in ScoredNames(router_engine.in.dir) :
          /\ n # router_engine.out
          /\ ScoreOf(router_engine.in.dir, n, router_engine.in.raw_query)
             = ScoreOf(router_engine.in.dir, router_engine.out, router_engine.in.raw_query)

\* C28: a domain hint that, trimmed and lowercased, is exactly the name of an
\* available pack makes choose_pack return that pack, whatever other packs
\* exist.
ExactNameHintWins ==
    (/\ router_engine.op = "done"
     /\ router_engine.in.domain_hint.given
     /\ \E pack \in router_engine.in.dir :
           pack.name = LowerText(Strip(router_engine.in.domain_hint.text)))
    => router_engine.out = LowerText(Strip(router_engine.in.domain_hint.text))

\* C24: a failed answer call (the credential is missing, or the model call
\* raised) appends no trace event.
FailedAnswerAppendsNothing ==
    \A c \in Calls :
        (/\ pc[c] = "done"
         /\ call[c].op = "answer"
         /\ resp[c].status \in {400, 500})
        => ~\E e \in events : e.call = c

\* number of events of the given type among the first n of a trace
CountOf(ev, n, event_type) ==
    Cardinality({i \in 1..n : ev[i].event_type = event_type})

\* a discover call has responded with the request's id
Discovered(r) ==
    \E d \in Calls : /\ pc[d] = "done" /\ call[d].op = "discover"
                     /\ resp[d].status = 200 /\ resp[d].request_id = r

\* C25: for every request discover created, the first two events of its trace
\* are DETECT_DOMAIN, then SUGGEST_FACETS with round 1, and the trace holds
\* exactly one DETECT_DOMAIN event whatever refine and answer calls followed.
DiscoverOpensTrace ==
    \A r \in RequestIds :
        LET ev == list_events(r)
        IN  /\ Len(ev) >= 1 => ev[1].event_type = "DETECT_DOMAIN"
            /\ Len(ev) >= 2 => /\ ev[2].event_type = "SUGGEST_FACETS"
                               /\ ev[2].data.round = 1
            /\ CountOf(ev, Len(ev), "DETECT_DOMAIN") <= 1
            /\ Discovered(r) => /\ Len(ev) >= 2
                                /\ CountOf(ev, Len(ev), "DETECT_DOMAIN") = 1
            /\ ~request_exists(requests, r) => ev = << >>

\* a discovered request has been refined and answered since
DiscoveredThenRefinedAndAnswered ==
    \E r \in RequestIds :
        LET ev == list_events(r)
        IN  /\ Discovered(r)
            /\ \E i, j \in 3..Len(ev) :
                  /\ ev[i].event_type = "SUGGEST_FACETS"
                  /\ ev[j].event_type = "USER_SELECT"

\* C26: in every prefix of a request's trace, under any interleaving of
\* answer calls, there are at least as many USER_SELECT events as
\* COMPILE_PROMPT events, and at least as many COMPILE_PROMPT events as
\* MODEL_RESPONSE events.
AnswerStagesNested ==
    \A r \in RequestIds :
        LET ev == list_events(r)
        IN  \A n \in 0..Len(ev) :
               /\ CountOf(ev, n, "USER_SELECT") >= CountOf(ev, n, "COMPILE_PROMPT")
               /\ CountOf(ev, n, "COMPILE_PROMPT") >= CountOf(ev, n, "MODEL_RESPONSE")

\* two answer calls have appended to one request in alternation, and a
\* MODEL_RESPONSE was stored
AnswersInterleaved ==
    \E c, d \in Calls :
        /\ c # d /\ call[c].op = "answer" /\ call[d].op = "answer"
        /\ Interleaved(c, d)
        /\ \E m \in events : m.call \in {c, d} /\ m.event_type = "MODEL_RESPONSE"

\* C27: for every successful discover or refine call, the facet_ids of the
\* SUGGEST_FACETS event it appended are, in order, the ids of the candidates
\* it returned, and they are at most max_facet_questions.
SuggestedIdsAreReturnedIds ==
    \A c \in Calls :
        (/\ pc[c] = "done"
         /\ call[c].op \in {"discover", "refine"}
         /\ resp[c].status = 200)
        => LET mine == {e \in events : e.call = c /\ e.event_type = "SUGGEST_FACETS"}
           IN  /\ \A e \in mine :
                     /\ e.data.facet_ids = resp[c].facet_candidates
                     /\ Len(e.data.facet_ids) <= max_facet_questions
               /\ Cardinality(mine) <= 1
               /\ (call[c].op = "discover" \/ ~round_limit_reached(call[c].refine_round))
                     => Cardinality(mine) = 1

\* a discover call was handed more candidates than max_facet_questions and
\* has returned, and a refine call has returned candidates too
SuggestedIdsTruncated ==
    \E c, d \in Calls :
        /\ pc[c] = "done" /\ call[c].op = "discover" /\ resp[c].status = 200
        /\ Len(round1_ids(requests[resp[c].request_id].domain_pack)) > max_facet_questions
        /\ Len(resp[c].facet_candidates) = max_facet_questions
        /\ pc[d] = "done" /\ call[d].op = "refine" /\ resp[d].status = 200
        /\ Len(resp[d].facet_candidates) >= 1

\* C29: compile never raises for selections whose values may be null, for
\* every domain_pack, the catalog-enabled pack included, and with search_type,
\* service_sector or location null (the services the catalog file lists all
\* have the keys the formatter reads).
CompileAcceptsNullSelections ==
    (/\ compiler.op = "done"
     /\ compiler.in.fn = "compile"
     /\ \E i \in 1..Len(compiler.in.selections) :
           compiler.in.selections[i].value = JNull
     /\ compiler.in.env.services.exists =>
           \A i \in 1..Len(compiler.in.env.services.data) :
               formats(compiler.in.env.services.data[i]))
    => ~compiler.out.raised

====
